---------------------------- MODULE Spec2Model ----------------------------
(***************************************************************************)
(* A model of geemap_tools: the time-series extractors                     *)
(* (index_to_timeseries, get_TerraClimate, get_CHIRPS), the raster         *)
(* stack exporter (extract_mapbiomas) and the region summary               *)
(* (describe_roi) of geemap_tools/analysis.py, the clear-sky               *)
(* percentage of geemap_tools/clouds.py, the region codec                  *)
(* (roi_to_file, file_to_roi) of geemap_tools/io.py, the image             *)
(* listing (list_sat_images) of geemap_tools/catalog.py and the            *)
(* crop statistics (get_sidra_cultura) of geemap_tools/sidra_tools.py.     *)
(*                                                                         *)
(* The remote services, the filesystem and the array library are           *)
(* the environment: a call into them is a nondeterministic choice of its   *)
(* outcome (a value, or an exception of some class).  Each function of the *)
(* package has its own specification (SpecIdx, SpecMB, SpecClimate,        *)
(* SpecClearSky, SpecRoiToFile, SpecFileToRoi, SpecDescribeRoi,            *)
(* SpecListSatImages, SpecSidra); SpecMBOverlap interleaves two calls      *)
(* of extract_mapbiomas and SpecCodec feeds the file that roi_to_file      *)
(* wrote to file_to_roi.                                                   *)
(***************************************************************************)
EXTENDS Integers, Sequences, FiniteSets, TLC

VARIABLES
    \* ---- index_to_timeseries (analysis.py 16-89)
    idx_pc,          \* "loop" | "done" | "raised"
    idx_df,          \* the input table: a sequence of rows [id, date]
    idx_scale,       \* the scale argument: None or a number
    idx_debug,       \* the debug argument
    index_means,     \* the list index_means
    index_stds,      \* the list index_stds
    idx_used_scale,  \* used_scale of every iteration that computed one
    idx_svc,         \* what the service answered for every processed id
    idx_msgs,        \* the [DEBUG] lines printed
    idx_out,         \* the returned table
    \* ---- extract_mapbiomas (analysis.py 698-904)
    mb_pc,           \* the phase the invocation is in, "returned" or "raised"
    mb_roi,          \* the class of the roi argument
    mb_bounds,       \* what roi.bounds().getInfo() gave (line 759)
    mb_years,        \* the years argument
    include_srtm,    \* the include_srtm argument
    include_terrain, \* the include_terrain argument
    terrain_vars,    \* the terrain_vars argument
    mb_debug,        \* the debug argument
    fs,              \* the filesystem: the paths that exist, <<directory, file>>
    temp_dir,        \* the working directory's name, NoDir before line 766
    valid_years,     \* the list valid_years
    da_list,         \* the per-year rasters read back, [time, ys, xs]
    ds,              \* the dataset: [stack, layers, attrs]
    mb_msgs,         \* the lines written with tqdm.write
    rm_log,          \* the outcome of every shutil.rmtree attempt, in order
    mb_slept,        \* seconds slept in the cleanup loop
    mb_raised,       \* [at, exc] of the exception that ended the call
    mb_aux_failed,   \* the auxiliary layers whose processing failed
    mb_ti,           \* how many of terrain_vars the loop of line 844 has taken
    \* ---- get_TerraClimate (analysis.py 187-390)
    tc_pc,           \* "validate" | "query" | "reduce" | "table" | "done" | "raised"
    tc_variables,    \* the variables argument
    tc_stats,        \* the stats argument
    vars_selected,   \* the list vars_selected
    stats_selected,  \* the list stats_selected
    tc_images,       \* the dates of the collection's images, in service order
    tc_features,     \* the features stats_by_month has made, in service order
    tc_out,          \* the returned table: [columns, rows]
    tc_error,        \* the exception that ended the call, NoExc if none
    \* ---- get_CHIRPS (analysis.py 532-679)
    ch_pc,           \* "validate" | "daily" | "monthly" | "final" | "done" | "raised"
    ch_start,        \* the start argument, <<year, month, day>>
    ch_end,          \* the end argument, <<year, month, day>>
    frequency,       \* the frequency argument
    ch_catalog,      \* the days for which the service holds a daily raster
    ch_features,     \* daily mode: the rows of the feature collection
    dfs,             \* monthly mode: the list dfs of per-year tables
    ch_years_done,   \* monthly mode: how many years the loop has taken
    ch_warnings,     \* the years for which warnings.warn was called
    ch_out,          \* the returned table: [columns, rows]
    ch_error,        \* the exception that ended the call, NoExc if none
    \* ---- get_clear_sky_percentage (clouds.py 71-139)
    cs_pc,           \* "scale" | "mask" | "reduce" | "returned"
    cs_bands,        \* the band names of the image
    cs_debug,        \* the debug argument
    cs_scale,        \* the local scale, None before line 103
    cs_mask,         \* the band custom_mask_clouds made the mask from
    cs_out,          \* the returned percentage in tenths, or None
    cs_msgs,         \* the [DEBUG] lines printed
    \* ---- two overlapping calls of extract_mapbiomas in one process
    \*      (analysis.py 698-904), each call c in Calls
    cc_clock,        \* datetime.datetime.now(), in seconds since the first call
    cc_fs,           \* the paths that exist in the current directory
    cc_pc,           \* c -> "mkdir" | "roi_file" | "export" | "read" |
                     \*      "cleanup" | "returned" | "raised"
    cc_years,        \* c -> the valid years of the call
    cc_dir,          \* c -> temp_dir (its second), None before line 766
    cc_read,         \* c -> how many years were read back
    cc_wrote,        \* c -> the paths the call created
    cc_rm,           \* c -> how many removals the cleanup loop tried
    cc_error,        \* c -> the exception that ended the call, NoExc if none
    cc_lost,         \* <<deleter, owner, path>>: paths a call's cleanup
                     \* removed that another call had created
    \* ---- roi_to_file (io.py 16-104)
    rf_pc,           \* "prepare" | "features" | "convert" | "write" |
                     \* "returned" | "raised"
    rf_roi,          \* the roi argument: [class, geoms]
    rf_filename,     \* the filename argument: [dir, stem, suffix]
    rf_format,       \* the format argument
    wrap_geometry,   \* the wrap_geometry argument
    rf_fs,           \* the paths that exist: <<dir, name, extension>>
    rf_svc,          \* how many getInfo() calls were made
    rf_features,     \* the list features: the geometry type of each
    rf_out,          \* the returned path, NoPath if none
    rf_coords,       \* a coordinate of the geometry of each feature of roi
    rf_file,         \* what the written file holds, NoFile if none
    rf_error,        \* the exception that ended the call, NoExc if none
    \* ---- file_to_roi (io.py 107-177)
    fr_pc,           \* "exists" | "extract" | "read" | "crs" | "convert" |
                     \* "returned" | "raised"
    fr_file,         \* the file at filepath: [exists, ext, members, crs, geoms]
    fr_tmp,          \* the temporary directory: [exists, entries]
    fr_tmp_made,     \* whether a temporary directory was ever created
    fr_gdf,          \* the GeoDataFrame: [read, crs, geoms]
    fr_out,          \* the returned collection: the geometry of each feature
    fr_error,        \* the exception that ended the call, NoExc if none
    \* ---- describe_roi (analysis.py 91-184)
    dr_pc,           \* "geometry" | "area" | "perimeter" | "report" |
                     \* "returned" | "raised"
    dr_roi,          \* the class of the roi argument
    show_pixels_table, \* the show_pixels_table argument
    print_summary,   \* the print_summary argument
    pixel_res,       \* the pixel_res argument: [class, values]
    dr_ipython,      \* whether the interpreter defines display()
    dr_svc,          \* how many getInfo() calls were made
    area_m2,         \* the area the service returned, None before
    perimeter_m,     \* the perimeter the service returned, None before
    resolutions,     \* the list resolutions
    pixels_dict,     \* the dict pixels_dict: <<label, count>> in key order
    dr_df,           \* the table: <<>> for None, else <<its rows>>
    dr_msgs,         \* what was printed
    dr_error,        \* the exception that ended the call, NoExc if none
    \* ---- list_sat_images (catalog.py 15-117)
    ls_pc,           \* "check" | "area" | "ids" | "loop" | "returned" |
                     \* "raised"
    collection_id,   \* the collection_id argument, a sequence of characters
    ls_roi,          \* the roi argument: "None" or "Geometry"
    max_imgs,        \* the max_imgs argument
    compute_clear_sky, \* the compute_clear_sky argument
    ls_svc,          \* how many getInfo() calls were made
    roi_area,        \* the area of roi, None before it is known
    ls_matching,     \* the images the filtered collection holds, in order
    ids,             \* the list ids: indices into ls_matching
    meta,            \* the property names chosen, NoMeta before
    metadata_list,   \* the list metadata_list
    ls_log,          \* for each image processed, what the service answered
    ls_msgs,         \* what was printed
    ls_error,        \* the exception that ended the call, NoExc if none
    \* ---- get_sidra_cultura (sidra_tools.py 10-107)
    sd_pc,           \* "check" | "download" | "finish" | "returned" |
                     \* "raised"
    cod_mun,         \* the cod_mun argument
    cod_cultura,     \* the cod_cultura argument
    sd_debug,        \* the debug argument
    sd_requests,     \* the variable codes requested, in order
    sd_raw,          \* df_raw of each download that was read
    data,            \* the frame data: its columns <<name, cells>>
    sd_out,          \* the returned frame: its rows, <<>> before
    sd_warnings,     \* the warnings issued
    sd_msgs,         \* what was printed
    sd_error         \* the exception that ended the call, NoExc if none

idxVars == <<idx_pc, idx_df, idx_scale, idx_debug, index_means, index_stds,
             idx_used_scale, idx_svc, idx_msgs, idx_out>>

mbVars == <<mb_pc, mb_roi, mb_bounds, mb_years, include_srtm,
            include_terrain, terrain_vars, mb_debug, fs, temp_dir, valid_years, da_list, ds,
            mb_msgs, rm_log, mb_slept, mb_raised, mb_aux_failed, mb_ti>>

\* The arguments that extract_mapbiomas never rebinds.
mbArgs == <<mb_years, include_srtm, include_terrain, terrain_vars, mb_debug>>

tcVars == <<tc_pc, tc_variables, tc_stats, vars_selected, stats_selected,
            tc_images, tc_features, tc_out, tc_error>>

chVars == <<ch_pc, ch_start, ch_end, frequency, ch_catalog, ch_features, dfs,
            ch_years_done, ch_warnings, ch_out, ch_error>>

csVars == <<cs_pc, cs_bands, cs_debug, cs_scale, cs_mask, cs_out, cs_msgs>>

ccVars == <<cc_clock, cc_fs, cc_pc, cc_years, cc_dir, cc_read, cc_wrote,
            cc_rm, cc_error, cc_lost>>

rfVars == <<rf_pc, rf_roi, rf_filename, rf_format, wrap_geometry, rf_fs,
            rf_svc, rf_features, rf_out, rf_coords, rf_file, rf_error>>

\* The functions outside analysis.py, and the overlapping calls.
frVars == <<fr_pc, fr_file, fr_tmp, fr_tmp_made, fr_gdf, fr_out, fr_error>>

extVars == <<csVars, ccVars, rfVars, frVars>>

drVars == <<dr_pc, dr_roi, show_pixels_table, print_summary, pixel_res,
            dr_ipython, dr_svc, area_m2, perimeter_m, resolutions,
            pixels_dict, dr_df, dr_msgs, dr_error>>

lsVars == <<ls_pc, collection_id, ls_roi, max_imgs, compute_clear_sky,
            ls_svc, roi_area, ls_matching, ids, meta, metadata_list, ls_log,
            ls_msgs, ls_error>>

sdVars == <<sd_pc, cod_mun, cod_cultura, sd_debug, sd_requests, sd_raw,
            data, sd_out, sd_warnings, sd_msgs, sd_error>>

\* The functions that only query: describe_roi, list_sat_images,
\* get_sidra_cultura.
auxVars == <<drVars, lsVars, sdVars>>

vars == <<idxVars, mbVars, tcVars, chVars, extVars, auxVars>>

\* What a call of one function leaves alone: the state of the others.
IdxFrame == UNCHANGED <<mbVars, tcVars, chVars, extVars, auxVars>>
MBFrame == UNCHANGED <<idxVars, tcVars, chVars, extVars, auxVars>>
TCFrame == UNCHANGED <<idxVars, mbVars, chVars, extVars, auxVars>>
CHFrame == UNCHANGED <<idxVars, mbVars, tcVars, extVars, auxVars>>
AnalysisFrame == UNCHANGED <<idxVars, mbVars, tcVars, chVars, auxVars>>
CSFrame == AnalysisFrame /\ UNCHANGED <<ccVars, rfVars, frVars>>
CCFrame == AnalysisFrame /\ UNCHANGED <<csVars, rfVars, frVars>>
RFFrame == AnalysisFrame /\ UNCHANGED <<csVars, ccVars, frVars>>
FRFrame == AnalysisFrame /\ UNCHANGED <<csVars, ccVars, rfVars>>
MainFrame == UNCHANGED <<idxVars, mbVars, tcVars, chVars, extVars>>
DRFrame == MainFrame /\ UNCHANGED <<lsVars, sdVars>>
LSFrame == MainFrame /\ UNCHANGED <<drVars, sdVars>>
SDFrame == MainFrame /\ UNCHANGED <<drVars, lsVars>>

---------------------------------------------------------------------------
\* Bounds of the model.

\* The longest input table of index_to_timeseries.
MaxImgs == 3

\* The longest years argument of extract_mapbiomas.
MaxYears == 2

\* The most images the TerraClimate collection holds for a query.
MaxMonths == 2

\* The most daily rasters the CHIRPS collection holds.
MaxDays == 3

\* The instants of the clock that two overlapping calls of
\* extract_mapbiomas run through, and how many of them make one second.
MaxClock == 3
TicksPerSecond == 2

---------------------------------------------------------------------------
\* Values shared by the functions.

\* Python's None (also the service's null): a value that is no number the
\* service returns and no scale.
None == -1

\* No exception was raised.
NoExc == "NoException"

\* All sequences over S of length at most n.
BoundedSeq(S, n) == UNION {[1..k -> S] : k \in 0..n}

\* The exception classes that the calls of the package raise, and Python's
\* class hierarchy over them (what an `except C` clause catches).
ExcParent(c) ==
    CASE c = "PermissionError"   -> "OSError"
      [] c = "FileNotFoundError" -> "OSError"
      [] c = "OSError"           -> "Exception"
      [] c = "ValueError"        -> "Exception"
      [] c = "AttributeError"    -> "Exception"
      [] c = "EEException"       -> "Exception"
      [] c = "RasterioIOError"   -> "OSError"
      [] c = "NoDataInBounds"    -> "Exception"
      [] c = "KeyError"          -> "Exception"
      [] OTHER                   -> "BaseException"

RECURSIVE IsInstance(_, _)
IsInstance(exc, cls) ==
    IF exc = cls THEN TRUE
    ELSE IF exc = "BaseException" THEN FALSE
    ELSE IsInstance(ExcParent(exc), cls)

---------------------------------------------------------------------------
\* The state of a function that is not being called.

NoDir == "NoDir"
NoRaise == [at |-> "nowhere", exc |-> NoExc]
NoStack == [made |-> FALSE, times |-> <<>>, ys |-> {}, xs |-> {}]
EmptyDs == [stack |-> NoStack, layers |-> {}, attrs |-> FALSE, title |-> ""]

MBIdle ==
    /\ mb_pc = "idle"
    /\ mb_roi = "Geometry"
    /\ mb_bounds = "unset"
    /\ mb_years = <<>>
    /\ include_srtm = FALSE
    /\ include_terrain = FALSE
    /\ terrain_vars = <<>>
    /\ mb_debug = FALSE
    /\ fs = {}
    /\ temp_dir = NoDir
    /\ valid_years = <<>>
    /\ da_list = <<>>
    /\ ds = EmptyDs
    /\ mb_msgs = {}
    /\ rm_log = <<>>
    /\ mb_slept = 0
    /\ mb_raised = NoRaise
    /\ mb_aux_failed = {}
    /\ mb_ti = 0

IdxIdle ==
    /\ idx_pc = "idle"
    /\ idx_df = <<>>
    /\ idx_scale = None
    /\ idx_debug = FALSE
    /\ index_means = <<>>
    /\ index_stds = <<>>
    /\ idx_used_scale = <<>>
    /\ idx_svc = <<>>
    /\ idx_msgs = <<>>
    /\ idx_out = <<>>

\* An argument left at its default None, and one given as a list.
ArgNone == [given |-> FALSE, list |-> <<>>]
ArgList(l) == [given |-> TRUE, list |-> l]

\* A table (DataFrame): its columns and its rows.
NoTable == [columns |-> {}, rows |-> <<>>]

TCIdle ==
    /\ tc_pc = "idle"
    /\ tc_variables = ArgNone
    /\ tc_stats = ArgNone
    /\ vars_selected = <<>>
    /\ stats_selected = <<>>
    /\ tc_images = <<>>
    /\ tc_features = <<>>
    /\ tc_out = NoTable
    /\ tc_error = NoExc

CHIdle ==
    /\ ch_pc = "idle"
    /\ ch_start = <<2000, 1, 1>>
    /\ ch_end = <<2000, 1, 1>>
    /\ frequency = "monthly"
    /\ ch_catalog = {}
    /\ ch_features = <<>>
    /\ dfs = <<>>
    /\ ch_years_done = 0
    /\ ch_warnings = {}
    /\ ch_out = NoTable
    /\ ch_error = NoExc

CSIdle ==
    /\ cs_pc = "idle"
    /\ cs_bands = {}
    /\ cs_debug = FALSE
    /\ cs_scale = None
    /\ cs_mask = ""
    /\ cs_out = None
    /\ cs_msgs = {}

\* The calls of extract_mapbiomas that overlap.
Calls == {1, 2}

CCIdle ==
    /\ cc_clock = 0
    /\ cc_fs = {}
    /\ cc_pc = [c \in Calls |-> "idle"]
    /\ cc_years = [c \in Calls |-> <<>>]
    /\ cc_dir = [c \in Calls |-> None]
    /\ cc_read = [c \in Calls |-> 0]
    /\ cc_wrote = [c \in Calls |-> {}]
    /\ cc_rm = [c \in Calls |-> 0]
    /\ cc_error = [c \in Calls |-> NoExc]
    /\ cc_lost = {}

\* A path of roi_to_file and file_to_roi: none, a directory, a file.
NoPath == <<>>
Dir(d) == <<d, "", "/">>
File(d, name, ext) == <<d, name, ext>>

\* The content of a vector file: whether it exists, its extension, the
\* members of an archive, the coordinate system it declares and, for each
\* row, the type of its geometry and a coordinate of it.
NoFile == [exists |-> FALSE, ext |-> ".geojson", members |-> {},
           crs |-> "", geoms |-> <<>>]

RFIdle ==
    /\ rf_pc = "idle"
    /\ rf_roi = [class |-> "Feature", geoms |-> <<"Polygon">>]
    /\ rf_filename = [dir |-> "", stem |-> "roi", suffix |-> ""]
    /\ rf_format = "geojson"
    /\ wrap_geometry = TRUE
    /\ rf_fs = {}
    /\ rf_svc = 0
    /\ rf_features = <<>>
    /\ rf_out = NoPath
    /\ rf_coords = <<>>
    /\ rf_file = NoFile
    /\ rf_error = NoExc

\* No temporary directory, and no GeoDataFrame.
NoTmp == [exists |-> FALSE, entries |-> {}]
NoGdf == [read |-> FALSE, crs |-> "", geoms |-> <<>>]

FRIdle ==
    /\ fr_pc = "idle"
    /\ fr_file = [exists |-> FALSE, ext |-> ".geojson", members |-> {},
                  crs |-> "", geoms |-> <<>>]
    /\ fr_tmp = NoTmp
    /\ fr_tmp_made = FALSE
    /\ fr_gdf = NoGdf
    /\ fr_out = <<>>
    /\ fr_error = NoExc

\* No pixel_res, and no table.
PixelResNone == [class |-> "NoneType", values |-> <<>>]
NoDf == <<>>

DRIdle ==
    /\ dr_pc = "idle"
    /\ dr_roi = "Geometry"
    /\ show_pixels_table = TRUE
    /\ print_summary = TRUE
    /\ pixel_res = PixelResNone
    /\ dr_ipython = TRUE
    /\ dr_svc = 0
    /\ area_m2 = None
    /\ perimeter_m = None
    /\ resolutions = <<>>
    /\ pixels_dict = <<>>
    /\ dr_df = NoDf
    /\ dr_msgs = <<>>
    /\ dr_error = NoExc

\* No property names chosen yet.
NoMeta == [satellite |-> "", cloud |-> "", elevation |-> "", azimuth |-> "",
           zenith_to_elevation |-> FALSE]

LSIdle ==
    /\ ls_pc = "idle"
    /\ collection_id = <<>>
    /\ ls_roi = "Geometry"
    /\ max_imgs = 0
    /\ compute_clear_sky = FALSE
    /\ ls_svc = 0
    /\ roi_area = None
    /\ ls_matching = <<>>
    /\ ids = <<>>
    /\ meta = NoMeta
    /\ metadata_list = <<>>
    /\ ls_log = <<>>
    /\ ls_msgs = <<>>
    /\ ls_error = NoExc

SDIdle ==
    /\ sd_pc = "idle"
    /\ cod_mun = ""
    /\ cod_cultura = ""
    /\ sd_debug = FALSE
    /\ sd_requests = <<>>
    /\ sd_raw = <<>>
    /\ data = <<>>
    /\ sd_out = <<>>
    /\ sd_warnings = {}
    /\ sd_msgs = <<>>
    /\ sd_error = NoExc

AuxIdle == DRIdle /\ LSIdle /\ SDIdle

ExtIdleMain == CSIdle /\ CCIdle /\ RFIdle /\ FRIdle

ExtIdle == ExtIdleMain /\ AuxIdle

---------------------------------------------------------------------------
\* index_to_timeseries(df, roi, index_name, scale=None, debug=False)

\* The images a table may list: an id and its acquisition date (a day number).
ImageRows == {[id |-> k, date |-> 100 + k] : k \in 1..3}

\* The band lists the service may report for an image.
BandLists == {{"QA_PIXEL", "B4"}, {"SCL", "B4"}, {"B4"}}

\* The band list of an iteration that never asked for one (scale given, or
\* the iteration failed before line 56 returned).
BandsNotQueried == {}

\* The dictionaries reduceRegion(...).getInfo() may return: a value, or no
\* entry (stats.get gives None), for <index>_mean and <index>_stdDev.
StatsDicts == {[mean |-> 7, stdDev |-> 3], [mean |-> None, stdDev |-> None]}

\* What the service does in one iteration: the first call that raises (or
\* "ok"), the exception raised, the bands and the statistics it returns.
IdxOutcomes ==
    [stage : {"ok"}, exc : {NoExc},
     bands : BandLists \cup {BandsNotQueried}, stats : StatsDicts]
    \cup [stage : {"spectralIndices"}, exc : {"EEException"},
          bands : {BandsNotQueried}, stats : {[mean |-> None, stdDev |-> None]}]
    \cup [stage : {"reduceRegion"}, exc : {"EEException"},
          bands : BandLists \cup {BandsNotQueried},
          stats : {[mean |-> None, stdDev |-> None]}]
    \cup [stage : {"bandNames"}, exc : {"EEException"},
          bands : {BandsNotQueried}, stats : {[mean |-> None, stdDev |-> None]}]

\* Lines 55-66: the scale of the reduction.
DetectScale(bands) ==
    IF "QA_PIXEL" \in bands THEN 30
    ELSE IF "SCL" \in bands THEN 20
    ELSE 10

UsedScale(scale, bands) == IF scale = None THEN DetectScale(bands) ELSE scale

\* Line 79: `except Exception as e`.
IdxCatchesMutant(exc) == exc = "AttributeError"
IdxCatches(exc) == IsInstance(exc, "Exception")

\* Lines 82-83: the handler's appends.
IdxHandlerStds(stds) == Append(stds, None)

\* Lines 85-89: the returned table is a copy of df with the two columns set
\* from the lists, row by row; nothing reorders it.
RECURSIVE SortedByDate(_)
SortedByDate(rows) ==
    IF Len(rows) <= 1 THEN rows
    ELSE LET m == CHOOSE i \in 1..Len(rows) :
                      \A j \in 1..Len(rows) :
                          rows[i].date < rows[j].date
                          \/ (rows[i].date = rows[j].date /\ i <= j)
             rest == [k \in 1..(Len(rows) - 1) |->
                          IF k < m THEN rows[k] ELSE rows[k + 1]]
         IN  <<rows[m]>> \o SortedByDate(rest)

IdxAssembleMutant(df, means, stds) ==
    SortedByDate([i \in 1..Len(df) |->
                    [id |-> df[i].id, date |-> df[i].date,
                     mean |-> means[i], std |-> stds[i]]])

IdxAssemble(df, means, stds) ==
    [i \in 1..Len(df) |->
        [id |-> df[i].id, date |-> df[i].date,
         mean |-> means[i], std |-> stds[i]]]

IdxInit ==
    /\ MBIdle /\ TCIdle /\ CHIdle /\ ExtIdle
    /\ idx_pc = "loop"
    /\ idx_df \in BoundedSeq(ImageRows, MaxImgs)
    /\ idx_scale \in {None, 100}
    /\ idx_debug \in BOOLEAN
    /\ index_means = <<>>
    /\ index_stds = <<>>
    /\ idx_used_scale = <<>>
    /\ idx_svc = <<>>
    /\ idx_msgs = <<>>
    /\ idx_out = <<>>

\* One iteration of the loop of lines 49-83, for the next id of df['id'].
IdxIterate ==
    /\ idx_pc = "loop"
    /\ Len(idx_svc) < Len(idx_df)
    /\ \E o \in IdxOutcomes :
        \* bandNames is called only when no scale was given (line 55)
        /\ idx_scale # None =>
              (o.stage # "bandNames" /\ o.bands = BandsNotQueried)
        /\ idx_scale = None =>
              (o.stage \in {"ok", "reduceRegion"} => o.bands \in BandLists)
        /\ LET img_id == idx_df[Len(idx_svc) + 1].id
               scaled == o.stage \in {"ok", "reduceRegion"}
               used   == UsedScale(idx_scale, o.bands)
           IN
           /\ idx_svc' = Append(idx_svc, o)
           /\ idx_used_scale' =
                 IF scaled THEN Append(idx_used_scale, used) ELSE idx_used_scale
           /\ IF o.stage = "ok"
              THEN /\ index_means' = Append(index_means, o.stats.mean)
                   /\ index_stds' = Append(index_stds, o.stats.stdDev)
                   /\ idx_msgs' =
                        IF idx_scale = None /\ idx_debug
                        THEN Append(idx_msgs, <<"scale", img_id, used>>)
                        ELSE idx_msgs
                   /\ idx_pc' = idx_pc
              ELSE IF IdxCatches(o.exc)
              THEN /\ index_means' = Append(index_means, None)
                   /\ index_stds' = IdxHandlerStds(index_stds)
                   /\ idx_msgs' =
                        LET m1 == IF scaled /\ idx_scale = None /\ idx_debug
                                  THEN Append(idx_msgs, <<"scale", img_id, used>>)
                                  ELSE idx_msgs
                        IN  IF idx_debug
                            THEN Append(m1, <<"failed", img_id>>)
                            ELSE m1
                   /\ idx_pc' = idx_pc
              ELSE /\ idx_pc' = "raised"
                   /\ UNCHANGED <<index_means, index_stds, idx_msgs>>
    /\ UNCHANGED <<idx_df, idx_scale, idx_debug, idx_out>>
    /\ IdxFrame

\* Lines 85-89, after the last id.
IdxReturn ==
    /\ idx_pc = "loop"
    /\ Len(idx_svc) = Len(idx_df)
    /\ IF Len(index_means) = Len(idx_df) /\ Len(index_stds) = Len(idx_df)
       THEN /\ idx_out' = IdxAssemble(idx_df, index_means, index_stds)
            /\ idx_pc' = "done"
       ELSE \* pandas refuses a column whose length is not the table's
            /\ idx_out' = idx_out
            /\ idx_pc' = "raised"
    /\ UNCHANGED <<idx_df, idx_scale, idx_debug, index_means, index_stds,
                   idx_used_scale, idx_svc, idx_msgs>>
    /\ IdxFrame

IdxNext == IdxIterate \/ IdxReturn

SpecIdx == IdxInit /\ [][IdxNext]_vars

---------------------------------------------------------------------------
\* Claims about index_to_timeseries (checked under SpecIdx).

IdxFailed(i) == idx_svc[i].stage # "ok"

\* C1: whatever ids fail (index computation, band-name query or region
\* reduction), the call does not raise; after every iteration both lists are
\* as long as the number of ids processed; the returned table has one row
\* per input row, in input order, with None in both columns on the failed
\* rows and the values the service returned on the others.
C1_PartialFailureTolerated ==
    /\ idx_pc # "raised"
    /\ Len(index_means) = Len(idx_svc)
    /\ Len(index_stds) = Len(idx_svc)
    /\ idx_pc = "done" =>
        /\ Len(idx_out) = Len(idx_df)
        /\ \A i \in 1..Len(idx_df) :
            /\ idx_out[i].id = idx_df[i].id
            /\ IdxFailed(i) =>
                  idx_out[i].mean = None /\ idx_out[i].std = None
            /\ ~IdxFailed(i) =>
                  /\ idx_out[i].mean = idx_svc[i].stats.mean
                  /\ idx_out[i].std = idx_svc[i].stats.stdDev

\* A finished call on three ids in which the reduction of the second failed
\* and the other two returned real values.
C1_Witness ==
    /\ idx_pc = "done"
    /\ Len(idx_df) = 3
    /\ ~IdxFailed(1) /\ IdxFailed(2) /\ ~IdxFailed(3)
    /\ idx_svc[2].stage = "reduceRegion"
    /\ idx_out[1].mean = 7 /\ idx_out[1].std = 3
    /\ idx_out[2].mean = None /\ idx_out[2].std = None
    /\ idx_out[3].mean = 7 /\ idx_out[3].std = 3

\* C9 (as claimed): the returned table is sorted ascending by date.
C9_ReturnedSortedByDate ==
    idx_pc = "done" =>
        \A i, j \in 1..Len(idx_out) :
            i < j => idx_out[i].date <= idx_out[j].date

\* C9 (amended): the returned table keeps the order of the input table; it
\* is not sorted by date.
C9_ReturnedInInputOrder ==
    idx_pc = "done" =>
        /\ Len(idx_out) = Len(idx_df)
        /\ \A i \in 1..Len(idx_df) : idx_out[i].date = idx_df[i].date

\* A finished call whose input table was in reverse date order.
C9_Witness ==
    /\ idx_pc = "done"
    /\ Len(idx_df) >= 2
    /\ idx_df[1].date > idx_df[2].date
    /\ idx_out[1].date > idx_out[2].date

---------------------------------------------------------------------------
\* extract_mapbiomas(roi, years, include_srtm, include_terrain, terrain_vars,
\*                   comment, debug, scale)

\* Line 892: `for _ in range(5)`.
CleanupAttempts == 5

\* Line 900: `time.sleep(1)`.
BackoffSeconds == 1

\* The years a caller may ask for.
RequestableYears == {2000, 2001, 2050}

\* base_image.bandNames().getInfo() (line 780): <<prefix, suffix>> of each
\* band name, split at "_".
AvailableBands == {<<"classification", 2000>>, <<"classification", 2001>>}

\* Lines 781-783.
AvailableYears(bands) == {b[2] : b \in {x \in bands : x[1] = "classification"}}

\* Line 784.
ValidYears(years, bands) ==
    SelectSeq(years, LAMBDA y : y \in AvailableYears(bands))

\* Line 787.
InvalidYears(years, bands) ==
    {years[i] : i \in 1..Len(years)} \ AvailableYears(bands)

\* The grids (row and column coordinates) an exported raster may have after
\* it was read back and clipped.
Grids == {[ys |-> {1, 2}, xs |-> {1, 2}], [ys |-> {1, 2}, xs |-> {1, 2, 3}]}

\* A path of the filesystem: a directory and a file in it.
DirPath(d) == <<d, "dir", 0, "">>
YearTif(d, year) == <<d, "mapbiomas", year, "">>
NamedFile(d, kind, name) == <<d, kind, 0, name>>

\* What roi.bounds().getInfo() may give (line 759).
BoundsOutcomes == {"valid", "empty", "no_coordinates", "error"}

\* Line 760: `not bounds or "coordinates" not in bounds`.
BoundsRejectedMutant(b) == b = "empty"
BoundsRejected(b) == b \in {"empty", "no_coordinates"}

\* What exporting, reading back and clipping one raster may do: the export
\* writes no file (geemap reports the error and returns), or the clip raises,
\* or a raster with some grid is obtained.
RasterOutcomes ==
    [kind : {"ok"}, grid : Grids]
    \cup [kind : {"export_failed", "clip_failed"}, grid : {[ys |-> {}, xs |-> {}]}]

RasterExc(o) ==
    IF o.kind = "export_failed" THEN "RasterioIOError" ELSE "NoDataInBounds"

\* Line 816: xr.concat(da_list, dim="time").  An empty list is refused; the
\* rasters are otherwise aligned on the union of their coordinates (the
\* `join` argument is not given), cells missing from a raster being filled.
Concat(das) ==
    [made  |-> TRUE,
     times |-> [i \in 1..Len(das) |-> das[i].time],
     ys    |-> UNION {das[i].ys : i \in 1..Len(das)},
     xs    |-> UNION {das[i].xs : i \in 1..Len(das)}]

\* Line 812: np.datetime64(f"{year}-01-01").
YearStamp(year) == <<year, 1, 1>>

\* The phase after the stack is made (lines 819, 842, 869).
AfterSrtmMutant == "cleanup"
AfterSrtm ==
    IF include_terrain /\ terrain_vars # <<>> THEN "terrain" ELSE "finalize"

AfterConcat == IF include_srtm THEN "srtm" ELSE AfterSrtm

\* Line 866: `except Exception as e` around one terrain variable.
MBTerrainCatches(exc) == IsInstance(exc, "Exception")

\* Line 898: `except PermissionError as e` around shutil.rmtree.
MBCleanupCatches(exc) == IsInstance(exc, "PermissionError")

\* Line 897: `break` after a removal that did not raise.
MBAfterRemovedMutant == "cleanup"
MBAfterRemoved == "returned"

\* What shutil.rmtree(temp_dir) may do (line 894).
RmtreeOutcomes(dirExists) ==
    IF dirExists THEN {"ok", "PermissionError", "OSError"}
    ELSE {"FileNotFoundError"}

MBInit ==
    /\ IdxIdle /\ TCIdle /\ CHIdle /\ ExtIdle
    /\ mb_pc = "validate"
    /\ mb_roi \in {"Geometry", "Feature", "FeatureCollection"}
    /\ mb_bounds = "unset"
    /\ mb_years \in BoundedSeq(RequestableYears, MaxYears)
    /\ include_srtm \in BOOLEAN
    /\ include_terrain \in BOOLEAN
    /\ terrain_vars \in {<<"hillshade">>, <<"slope", "hillshade">>}
    /\ mb_debug \in BOOLEAN
    /\ fs = {}
    /\ temp_dir = NoDir
    /\ valid_years = <<>>
    /\ da_list = <<>>
    /\ ds = EmptyDs
    /\ mb_msgs = {}
    /\ rm_log = <<>>
    /\ mb_slept = 0
    /\ mb_raised = NoRaise
    /\ mb_aux_failed = {}
    /\ mb_ti = 0

\* An exception leaves the function: nothing after the raising line runs.
MBRaise(at, exc) ==
    /\ mb_pc' = "raised"
    /\ mb_raised' = [at |-> at, exc |-> exc]

\* Lines 756-761: ValidateRegion.
MBValidate ==
    /\ mb_pc = "validate"
    /\ mb_roi' = "Geometry"
    /\ \E b \in BoundsOutcomes :
        /\ mb_bounds' = b
        /\ IF b = "error" THEN MBRaise("validate", "EEException")
           ELSE IF BoundsRejected(b) THEN MBRaise("validate", "ValueError")
           ELSE mb_pc' = "mkdir" /\ mb_raised' = mb_raised
    /\ UNCHANGED <<mbArgs, fs, temp_dir, valid_years, da_list, ds, mb_msgs,
                   rm_log, mb_slept, mb_aux_failed, mb_ti>>
    /\ MBFrame

\* Lines 763-767: the working directory, named after the clock's second.
MBMakeDir ==
    /\ mb_pc = "mkdir"
    /\ \E now \in {"20250101_120000"} :
        /\ temp_dir' = now
        /\ fs' = fs \cup {DirPath(now)}
    /\ mb_pc' = "roi_file"
    /\ UNCHANGED <<mbArgs, mb_roi, mb_bounds, valid_years, da_list, ds, mb_msgs, rm_log,
                   mb_slept, mb_raised, mb_aux_failed, mb_ti>>
    /\ MBFrame

\* Lines 769-777: the region written as GeoJSON and read back.
MBRoiToFile ==
    /\ mb_pc = "roi_file"
    /\ \E ok \in BOOLEAN :
        IF ok
        THEN /\ fs' = fs \cup {NamedFile(temp_dir, "roi", "geojson")}
             /\ mb_msgs' = IF mb_debug
                           THEN mb_msgs \cup {<<"exporting", "">>}
                           ELSE mb_msgs
             /\ mb_pc' = "band_names"
             /\ mb_raised' = mb_raised
        ELSE /\ MBRaise("roi_file", "EEException")
             /\ UNCHANGED <<fs, mb_msgs>>
    /\ UNCHANGED <<mbArgs, mb_roi, mb_bounds, temp_dir, valid_years, da_list, ds, rm_log,
                   mb_slept, mb_aux_failed, mb_ti>>
    /\ MBFrame

\* Lines 779-789: the requested years that the band catalog has.
MBBandNames ==
    /\ mb_pc = "band_names"
    /\ \E ok \in BOOLEAN :
        IF ok
        THEN /\ valid_years' = ValidYears(mb_years, AvailableBands)
             /\ mb_msgs' =
                  IF InvalidYears(mb_years, AvailableBands) # {}
                  THEN mb_msgs \cup {<<"years_ignored", "">>}
                  ELSE mb_msgs
             /\ mb_pc' = IF valid_years' = <<>> THEN "concat" ELSE "years"
             /\ mb_raised' = mb_raised
        ELSE /\ MBRaise("band_names", "EEException")
             /\ UNCHANGED <<valid_years, mb_msgs>>
    /\ UNCHANGED <<mbArgs, mb_roi, mb_bounds, fs, temp_dir, da_list, ds, rm_log,
                   mb_slept, mb_aux_failed, mb_ti>>
    /\ MBFrame

\* Lines 791-814: one year exported, read back, stamped, clipped, appended.
MBExportYear ==
    /\ mb_pc = "years"
    /\ Len(da_list) < Len(valid_years)
    /\ LET year == valid_years[Len(da_list) + 1] IN
       \E o \in RasterOutcomes :
        /\ fs' = IF o.kind = "export_failed" THEN fs
                 ELSE fs \cup {YearTif(temp_dir, year)}
        /\ IF o.kind = "ok"
           THEN /\ da_list' = Append(da_list,
                       [time |-> YearStamp(year),
                        ys |-> o.grid.ys, xs |-> o.grid.xs])
                /\ mb_pc' = IF Len(da_list') = Len(valid_years)
                            THEN "concat" ELSE "years"
                /\ mb_raised' = mb_raised
           ELSE /\ MBRaise("years", RasterExc(o))
                /\ da_list' = da_list
    /\ UNCHANGED <<mbArgs, mb_roi, mb_bounds, temp_dir, valid_years, ds, mb_msgs, rm_log,
                   mb_slept, mb_aux_failed, mb_ti>>
    /\ MBFrame

\* Lines 816-817: the stack.
MBConcat ==
    /\ mb_pc = "concat"
    /\ IF da_list = <<>>
       THEN /\ MBRaise("concat", "ValueError")
            /\ ds' = ds
       ELSE /\ ds' = [ds EXCEPT !.stack = Concat(da_list)]
            /\ mb_pc' = AfterConcat
            /\ mb_raised' = mb_raised
    /\ UNCHANGED <<mbArgs, mb_roi, mb_bounds, fs, temp_dir, valid_years, da_list, mb_msgs,
                   rm_log, mb_slept, mb_aux_failed, mb_ti>>
    /\ MBFrame

\* Lines 819-840: the SRTM layer; nothing catches what these lines raise.
MBSrtm ==
    /\ mb_pc = "srtm"
    /\ \E o \in RasterOutcomes :
        /\ fs' = IF o.kind = "export_failed" THEN fs
                 ELSE fs \cup {NamedFile(temp_dir, "srtm", "tif")}
        /\ mb_msgs' = IF mb_debug THEN mb_msgs \cup {<<"srtm", "">>}
                      ELSE mb_msgs
        /\ IF o.kind = "ok"
           THEN /\ ds' = [ds EXCEPT !.layers = @ \cup {"srtm_elevation"}]
                /\ mb_pc' = AfterSrtm
                /\ UNCHANGED <<mb_raised, mb_aux_failed>>
           ELSE /\ MBRaise("srtm", RasterExc(o))
                /\ mb_aux_failed' = mb_aux_failed \cup {"srtm_elevation"}
                /\ ds' = ds
    /\ UNCHANGED <<mbArgs, mb_roi, mb_bounds, temp_dir, valid_years, da_list, rm_log,
                   mb_slept, mb_ti>>
    /\ MBFrame

\* Lines 844-867: one terrain variable, inside its own try.
MBTerrain ==
    /\ mb_pc = "terrain"
    /\ mb_ti < Len(terrain_vars)
    /\ LET var == terrain_vars[mb_ti + 1] IN
       \E o \in RasterOutcomes :
        /\ fs' = IF o.kind = "export_failed" THEN fs
                 ELSE fs \cup {NamedFile(temp_dir, "terrain", var)}
        /\ IF o.kind = "ok"
           THEN /\ ds' = [ds EXCEPT !.layers = @ \cup {var}]
                /\ mb_msgs' = IF mb_debug
                              THEN mb_msgs \cup {<<"terrain", var>>}
                              ELSE mb_msgs
                /\ mb_pc' = IF mb_ti + 1 = Len(terrain_vars)
                            THEN "finalize" ELSE "terrain"
                /\ UNCHANGED <<mb_raised, mb_aux_failed>>
           ELSE IF MBTerrainCatches(RasterExc(o))
           THEN /\ mb_msgs' = (IF mb_debug
                               THEN mb_msgs \cup {<<"terrain", var>>}
                               ELSE mb_msgs) \cup {<<"terrain_failed", var>>}
                /\ mb_aux_failed' = mb_aux_failed \cup {var}
                /\ mb_pc' = IF mb_ti + 1 = Len(terrain_vars)
                            THEN "finalize" ELSE "terrain"
                /\ UNCHANGED <<ds, mb_raised>>
           ELSE /\ MBRaise("terrain", RasterExc(o))
                /\ mb_aux_failed' = mb_aux_failed \cup {var}
                /\ UNCHANGED <<ds, mb_msgs>>
    /\ mb_ti' = mb_ti + 1
    /\ UNCHANGED <<mbArgs, mb_roi, mb_bounds, temp_dir, valid_years, da_list, rm_log,
                   mb_slept>>
    /\ MBFrame

\* Lines 869-889: the metadata.
MBFinalize ==
    /\ mb_pc = "finalize"
    /\ ds' = [ds EXCEPT !.attrs = TRUE,
                        !.title = IF include_srtm THEN "MapBiomas + SRTM"
                                  ELSE "MapBiomas"]
    /\ mb_msgs' = IF mb_debug THEN mb_msgs \cup {<<"created", "">>}
                  ELSE mb_msgs
    /\ mb_pc' = "cleanup"
    /\ UNCHANGED <<mbArgs, mb_roi, mb_bounds, fs, temp_dir, valid_years, da_list, rm_log,
                   mb_slept, mb_raised, mb_aux_failed, mb_ti>>
    /\ MBFrame

\* Lines 891-904: one pass of the cleanup loop; a pass that ends the loop
\* (the break, or the fifth failure and the loop's else) returns ds.
MBCleanup ==
    /\ mb_pc = "cleanup"
    /\ Len(rm_log) < CleanupAttempts
    /\ \E o \in RmtreeOutcomes(DirPath(temp_dir) \in fs) :
        /\ rm_log' = Append(rm_log, o)
        /\ IF o = "ok"
           THEN /\ fs' = {p \in fs : p[1] # temp_dir}
                /\ mb_msgs' = IF mb_debug
                              THEN mb_msgs \cup {<<"removed", "">>}
                              ELSE mb_msgs
                /\ mb_pc' = MBAfterRemoved
                /\ UNCHANGED <<mb_slept, mb_raised>>
           ELSE IF MBCleanupCatches(o)
           THEN /\ mb_slept' = mb_slept + BackoffSeconds
                /\ mb_msgs' =
                     IF Len(rm_log') = CleanupAttempts
                     THEN mb_msgs \cup {<<"waiting", "">>, <<"not_removed", "">>}
                     ELSE mb_msgs \cup {<<"waiting", "">>}
                /\ mb_pc' = IF Len(rm_log') = CleanupAttempts
                            THEN "returned" ELSE "cleanup"
                /\ UNCHANGED <<fs, mb_raised>>
           ELSE /\ MBRaise("cleanup", o)
                /\ UNCHANGED <<fs, mb_msgs, mb_slept>>
    /\ UNCHANGED <<mbArgs, mb_roi, mb_bounds, temp_dir, valid_years, da_list, ds,
                   mb_aux_failed, mb_ti>>
    /\ MBFrame

MBNext ==
    \/ MBValidate
    \/ MBMakeDir
    \/ MBRoiToFile
    \/ MBBandNames
    \/ MBExportYear
    \/ MBConcat
    \/ MBSrtm
    \/ MBTerrain
    \/ MBFinalize
    \/ MBCleanup

SpecMB == MBInit /\ [][MBNext]_vars

---------------------------------------------------------------------------
\* Claims about extract_mapbiomas (checked under SpecMB).

\* The number of attempts of rm_log that raised a permission error.
PermissionFailures ==
    Cardinality({i \in 1..Len(rm_log) : rm_log[i] = "PermissionError"})

\* The files and the directory entry of the working directory still on disk.
LeftOnDisk == {p \in fs : p[1] = temp_dir}

\* C2 (as claimed): whatever error a removal attempt raises, the call still
\* returns the dataset: once removal has been attempted the call never ends
\* with an exception.
C2_CleanupNeverFatal ==
    rm_log # <<>> => mb_pc # "raised"

\* C3: removal is attempted at most 5 times, an attempt is repeated only
\* after a permission error and after a 1-second wait, and when k < 5
\* permission errors are followed by a success the call has made exactly
\* k+1 attempts, the directory is gone, no exception and no 'could not
\* remove' warning reach the caller.
C3_BoundedRetryStopsAtSuccess ==
    /\ Len(rm_log) <= CleanupAttempts
    /\ \A i \in 1..(Len(rm_log) - 1) : rm_log[i] = "PermissionError"
    /\ mb_slept = BackoffSeconds * PermissionFailures
    /\ (rm_log # <<>> /\ rm_log[Len(rm_log)] = "ok") =>
        /\ mb_pc = "returned"
        /\ Len(rm_log) = PermissionFailures + 1
        /\ LeftOnDisk = {}
        /\ mb_raised = NoRaise
        /\ <<"not_removed", "">> \notin mb_msgs

\* Removal failed twice with a permission error and succeeded the third time.
C3_Witness ==
    /\ mb_pc = "returned"
    /\ rm_log = <<"PermissionError", "PermissionError", "ok">>
    /\ mb_slept = 2
    /\ LeftOnDisk = {}

\* C4 (as claimed): an invocation that created its working directory and
\* has ended, by return or by an exception of a year's export, read-back or
\* clipping, of the stacking or of the SRTM step, attempted the directory's
\* removal.
C4_CleanupOnEveryExit ==
    /\ temp_dir # NoDir
    /\ \/ mb_pc = "returned"
       \/ mb_pc = "raised" /\ mb_raised.at \in {"years", "concat", "srtm"}
    => rm_log # <<>>

\* The auxiliary layers the call was asked for.
RequestedLayers ==
    (IF include_srtm THEN {"srtm_elevation"} ELSE {})
    \cup (IF include_terrain
          THEN {terrain_vars[i] : i \in 1..Len(terrain_vars)} ELSE {})

\* C5 (as claimed): the failure of one auxiliary layer (SRTM or a terrain
\* variable) never ends the call with an exception, and a returned dataset
\* holds the stack and every requested layer that did not fail.
C5_AuxLayerFailureContained ==
    /\ mb_aux_failed # {} => mb_raised.at \notin {"srtm", "terrain"}
    /\ mb_pc = "returned" =>
        /\ ds.stack.made
        /\ ds.layers = RequestedLayers \ mb_aux_failed

\* C6 (as claimed): requested years without a band are dropped and never
\* cause an error, also when no requested year has a band; the stack has one
\* slice per retained year, in the requested order, stamped January 1.
C6_AbsentYearsNeverAnError ==
    /\ InvalidYears(mb_years, AvailableBands) # {} => mb_raised.at # "concat"
    /\ ds.stack.made =>
        ds.stack.times =
            [i \in 1..Len(ValidYears(mb_years, AvailableBands)) |->
                <<ValidYears(mb_years, AvailableBands)[i], 1, 1>>]

\* Two of the rasters read back differ in grid shape.
GridMismatch ==
    \E i, j \in 1..Len(da_list) :
        da_list[i].ys # da_list[j].ys \/ da_list[i].xs # da_list[j].xs

\* C7 (as claimed): when the rasters read back differ in grid shape no stack
\* is made and the call returns no dataset.
C7_ShapeMismatchFatal ==
    GridMismatch => (~ds.stack.made /\ mb_pc # "returned")

---------------------------------------------------------------------------
\* Dates and tables shared by get_TerraClimate and get_CHIRPS.

\* The order of timestamps <<year, month, day>>.
DateKey(ts) == (ts[1] * 12 + ts[2]) * 31 + ts[3]

\* img.date().format("YYYY-MM") (lines 319, 615): the text of a date, the
\* day left out.
FormatYearMonth(date) == <<date[1], date[2]>>

\* img.date().format("YYYY-MM-dd") (line 591).
FormatYearMonthDay(date) == <<date[1], date[2], date[3]>>

\* pd.to_datetime (lines 342, 665) of such a text: a text without a day is
\* the first day of its month.
ToDatetime(text) ==
    IF Len(text) = 2 THEN <<text[1], text[2], 1>> ELSE text

\* The rows in non-decreasing order of their date.
IsSortedByDate(rows) ==
    \A i, j \in 1..Len(rows) :
        i < j => DateKey(rows[i].date) <= DateKey(rows[j].date)

\* df.sort_values('date') (lines 343, 666): the rows reordered by date; the
\* sort is not stable, rows of equal date may come out in any order.
SortValuesMutant(rows) == {rows}
SortValues(rows) ==
    {[i \in 1..Len(rows) |-> rows[p[i]]] :
        p \in {q \in Permutations(1..Len(rows)) :
                 IsSortedByDate([i \in 1..Len(rows) |-> rows[q[i]]])}}

\* geemap.ee_to_df (lines 339, 651, 663): one row per feature, one column
\* per property that some feature has; a feature without it has a missing
\* value there.
EeToDf(features) ==
    LET cols == UNION {DOMAIN features[i].props : i \in 1..Len(features)}
    IN  [columns |-> cols,
         rows |-> [i \in 1..Len(features) |->
                     [date |-> features[i].date,
                      vals |-> [c \in cols |->
                                  IF c \in DOMAIN features[i].props
                                  THEN features[i].props[c] ELSE None]]]]

\* ee.Feature(None, result): a property whose value is null is not set
\* (lines 333, 590, 641).
Feature(date, result) ==
    [date  |-> date,
     props |-> [k \in {c \in DOMAIN result : result[c] # None} |-> result[k]]]

---------------------------------------------------------------------------
\* get_TerraClimate(roi, start, end, variables, stats, scale, maxPixels, debug)

\* Lines 223-238.
valid_vars == {"aet", "def", "pdsi", "pet", "pr", "ro", "soil", "srad",
               "swe", "tmmx", "tmmn", "vap", "vpd", "vs"}

\* Lines 242-257, in thousandths.
scale_factor(var) ==
    CASE var = "pdsi" -> 10
      [] var = "vap"  -> 1
      [] var = "vpd"  -> 10
      [] var = "vs"   -> 10
      [] OTHER        -> 100

\* Line 261.
DefaultVariables == <<"pr", "pet", "srad", "tmmx", "tmmn">>

\* Line 263.
valid_stats == <<"mean", "median", "min", "max", "stdDev">>

Elems(seq) == {seq[i] : i \in 1..Len(seq)}

\* Lines 268 and 274: the names of the argument that are valid names.
VarsSelected(arg) ==
    SelectSeq(IF arg.given THEN arg.list ELSE DefaultVariables,
              LAMBDA v : v \in valid_vars)

StatsSelected(arg) ==
    SelectSeq(IF arg.given THEN arg.list ELSE valid_stats,
              LAMBDA x : x \in Elems(valid_stats))

\* Lines 293-308: the statistics the combined reducer puts out.
ReducerOutputs(stats) ==
    {x \in {"mean", "median", "stdDev"} : x \in Elems(stats)}
    \cup (IF "min" \in Elems(stats) \/ "max" \in Elems(stats)
          THEN {"min", "max"} ELSE {})

\* img.reduceRegion (lines 312-317): a value for every band and reducer
\* output, null where the band has no valid pixel in the region.
StatsDict(vsel, ssel, masked) ==
    [k \in Elems(vsel) \X ReducerOutputs(ssel) |->
        IF k[1] \in masked THEN None ELSE 250]

\* Lines 319-333: the feature of one image.
StatsByMonth(date, vsel, ssel, masked) ==
    LET stats_dict == StatsDict(vsel, ssel, masked)
        result == [k \in Elems(vsel) \X Elems(ssel) |-> stats_dict[k]]
    IN  Feature(FormatYearMonth(date), result)

\* Lines 351-362: a column that is in the table is multiplied by its
\* variable's factor.
ApplyScaleFactor(table) ==
    [columns |-> table.columns,
     rows |-> [i \in 1..Len(table.rows) |->
                 [date |-> table.rows[i].date,
                  vals |-> [c \in table.columns |->
                              IF table.rows[i].vals[c] = None THEN None
                              ELSE table.rows[i].vals[c] * scale_factor(c[1])]]]]

\* The image dates the collection may hold, and the bands a region may have
\* no valid pixel of.
TCImageDates == {<<2000, 1, 1>>, <<2000, 2, 1>>, <<2001, 1, 1>>}

MaskChoices(vsel) == {{}, {vsel[1]}, Elems(vsel)}

TCInit ==
    /\ IdxIdle /\ MBIdle /\ CHIdle /\ ExtIdle
    /\ tc_pc = "validate"
    /\ tc_variables \in {ArgNone, ArgList(<<"pr">>), ArgList(<<"pr", "vap">>),
                         ArgList(<<"pr", "co2">>), ArgList(<<"co2">>)}
    /\ tc_stats \in {ArgNone, ArgList(<<"mean">>), ArgList(<<"min">>),
                     ArgList(<<"max", "mean">>), ArgList(<<"mean", "sum">>),
                     ArgList(<<"sum">>)}
    /\ vars_selected = <<>>
    /\ stats_selected = <<>>
    /\ tc_images = <<>>
    /\ tc_features = <<>>
    /\ tc_out = NoTable
    /\ tc_error = NoExc

\* Lines 259-278.
TCValidate ==
    /\ tc_pc = "validate"
    /\ vars_selected' = VarsSelected(tc_variables)
    /\ IF Len(vars_selected') = 0
       THEN /\ tc_pc' = "raised"
            /\ tc_error' = "ValueError"
            /\ stats_selected' = stats_selected
       ELSE /\ stats_selected' = StatsSelected(tc_stats)
            /\ IF Len(stats_selected') = 0
               THEN tc_pc' = "raised" /\ tc_error' = "ValueError"
               ELSE tc_pc' = "query" /\ tc_error' = tc_error
    /\ UNCHANGED <<tc_variables, tc_stats, tc_images, tc_features, tc_out>>
    /\ TCFrame

\* Lines 281-290: the collection and its size.
TCQuery ==
    /\ tc_pc = "query"
    /\ \E ok \in BOOLEAN, imgs \in BoundedSeq(TCImageDates, MaxMonths) :
        IF ~ok
        THEN /\ imgs = <<>>
             /\ tc_pc' = "raised"
             /\ tc_error' = "EEException"
             /\ tc_images' = tc_images
        ELSE /\ tc_images' = imgs
             /\ IF Len(imgs) = 0
                THEN tc_pc' = "raised" /\ tc_error' = "ValueError"
                ELSE tc_pc' = "reduce" /\ tc_error' = tc_error
    /\ UNCHANGED <<tc_variables, tc_stats, vars_selected, stats_selected,
                   tc_features, tc_out>>
    /\ TCFrame

\* Lines 311-336: stats_by_month mapped over the collection, one image.
TCReduce ==
    /\ tc_pc = "reduce"
    /\ Len(tc_features) < Len(tc_images)
    /\ \E masked \in MaskChoices(vars_selected) :
        tc_features' = Append(tc_features,
            StatsByMonth(tc_images[Len(tc_features) + 1],
                         vars_selected, stats_selected, masked))
    /\ UNCHANGED <<tc_pc, tc_variables, tc_stats, vars_selected,
                   stats_selected, tc_images, tc_out, tc_error>>
    /\ TCFrame

\* Lines 339-390: the table, its dates, its order, its units.
TCTable ==
    /\ tc_pc = "reduce"
    /\ Len(tc_features) = Len(tc_images)
    /\ \E ok \in BOOLEAN :
        IF ~ok
        THEN /\ tc_pc' = "raised"
             /\ tc_error' = "EEException"
             /\ tc_out' = tc_out
        ELSE LET df == EeToDf(tc_features)
                 dated == [i \in 1..Len(df.rows) |->
                             [date |-> ToDatetime(df.rows[i].date),
                              vals |-> df.rows[i].vals]]
             IN  \E sorted \in SortValues(dated) :
                   /\ tc_out' = ApplyScaleFactor(
                                   [columns |-> df.columns, rows |-> sorted])
                   /\ tc_pc' = "done"
                   /\ tc_error' = tc_error
    /\ UNCHANGED <<tc_variables, tc_stats, vars_selected, stats_selected,
                   tc_images, tc_features>>
    /\ TCFrame

TCNext == TCValidate \/ TCQuery \/ TCReduce \/ TCTable

---------------------------------------------------------------------------
\* get_CHIRPS(roi, start, end, frequency, debug)

\* The days of the calendar for which a daily raster may exist.
ChirpsDays == {<<y, m, d>> : y \in {2000, 2001}, m \in {1, 12}, d \in {1, 31}}

\* Line 561: frequency.lower().
Lower(text) ==
    CASE text = "Monthly" -> "monthly"
      [] text = "DAILY"   -> "daily"
      [] OTHER            -> text

\* filterDate(a, b) (lines 568, 608): from a on, before b.
FilterDate(days, a, b) ==
    {d \in days : DateKey(a) <= DateKey(d) /\ DateKey(d) < DateKey(b)}

\* Lines 566-569: the collection of the call.
Chirps == FilterDate(ch_catalog, ch_start, ch_end)

\* Line 603: range(int(start[:4]), int(end[:4]) + 1).
ChirpsYears == [i \in 1..(ch_end[1] - ch_start[1] + 1) |-> ch_start[1] + i - 1]

\* The region's precipitation of one daily raster (the same in every pixel).
DailyRain(day) == 1

RECURSIVE SumRain(_)
SumRain(days) ==
    IF days = {} THEN 0
    ELSE LET d == CHOOSE x \in days : TRUE
         IN  DailyRain(d) + SumRain(days \ {d})

\* Lines 578-597 and 629-648: the five statistics of a raster that has the
\* same value in every pixel of the region.
PrStats(value) ==
    [k \in {"pr"} \X {"mean", "median", "max", "min", "stdDev"} |->
        IF k[2] = "stdDev" THEN 0 ELSE value]

\* Lines 577-597.
ExtractDaily(day) == Feature(FormatYearMonthDay(day), PrStats(DailyRain(day)))

\* Line 608.
YearChirps(year) == FilterDate(Chirps, <<year, 1, 1>>, <<year, 12, 31>>)

\* Lines 610-619: the distinct year_month texts of a year's rasters.
YearMonths(year) == {FormatYearMonth(d) : d \in YearChirps(year)}

\* Lines 621-624: the per-pixel sum of the month's rasters.
ReduceMonthMutant(year, month) ==
    LET imgs == {d \in YearChirps(year) : FormatYearMonth(d) = month}
    IN  SumRain(imgs) \div Cardinality(imgs)

ReduceMonth(year, month) ==
    SumRain({d \in YearChirps(year) : FormatYearMonth(d) = month})

\* Lines 628-648.
StatsMonth(year, month) == Feature(month, PrStats(ReduceMonth(year, month)))

\* The sequences that list every element of a set once: the orders in
\* which the service may return a collection.
Orders(S) ==
    {f \in [1..Cardinality(S) -> S] : \A x \in S : \E i \in DOMAIN f : f[i] = x}

\* Line 657: pd.concat(dfs, ignore_index=True).
RECURSIVE ConcatRows(_)
ConcatRows(tables) ==
    IF tables = <<>> THEN <<>>
    ELSE Head(tables).rows \o ConcatRows(Tail(tables))

PdConcat(tables) ==
    [columns |-> UNION {tables[i].columns : i \in 1..Len(tables)},
     rows |-> ConcatRows(tables)]

CHInit ==
    /\ IdxIdle /\ MBIdle /\ TCIdle /\ ExtIdle
    /\ ch_pc = "validate"
    /\ ch_start \in {<<2000, 1, 1>>, <<2001, 1, 1>>}
    /\ ch_end \in {<<2000, 12, 31>>, <<2001, 12, 31>>}
    /\ frequency \in {"daily", "monthly", "Monthly", "weekly"}
    /\ ch_catalog \in {S \in SUBSET ChirpsDays : Cardinality(S) <= MaxDays}
    /\ ch_features = <<>>
    /\ dfs = <<>>
    /\ ch_years_done = 0
    /\ ch_warnings = {}
    /\ ch_out = NoTable
    /\ ch_error = NoExc

\* Lines 560-563.
CHValidate ==
    /\ ch_pc = "validate"
    /\ frequency' = Lower(frequency)
    /\ IF frequency' \notin {"daily", "monthly"}
       THEN ch_pc' = "raised" /\ ch_error' = "ValueError"
       ELSE ch_pc' = frequency' /\ ch_error' = ch_error
    /\ UNCHANGED <<ch_start, ch_end, ch_catalog, ch_features, dfs,
                   ch_years_done, ch_warnings, ch_out>>
    /\ CHFrame

\* Lines 572-599: daily mode, the collection mapped in the service's order.
CHDaily ==
    /\ ch_pc = "daily"
    /\ \E ok \in BOOLEAN, order \in Orders(Chirps) :
        IF ~ok
        THEN /\ order \in {CHOOSE o \in Orders(Chirps) : TRUE}
             /\ ch_pc' = "raised"
             /\ ch_error' = "EEException"
             /\ ch_features' = ch_features
        ELSE /\ ch_features' = [i \in 1..Len(order) |-> ExtractDaily(order[i])]
             /\ ch_pc' = "final"
             /\ ch_error' = ch_error
    /\ UNCHANGED <<ch_start, ch_end, frequency, ch_catalog, dfs,
                   ch_years_done, ch_warnings, ch_out>>
    /\ CHFrame

\* Lines 606-655: monthly mode, one year of the loop.
CHYear ==
    /\ ch_pc = "monthly"
    /\ ch_years_done < Len(ChirpsYears)
    /\ LET year == ChirpsYears[ch_years_done + 1] IN
       \E ok \in BOOLEAN, order \in Orders(YearMonths(year)) :
        IF ~ok
        THEN /\ order \in {CHOOSE o \in Orders(YearMonths(year)) : TRUE}
             /\ ch_warnings' = ch_warnings \cup {year}
             /\ dfs' = dfs
        ELSE /\ dfs' = Append(dfs,
                    EeToDf([i \in 1..Len(order) |-> StatsMonth(year, order[i])]))
             /\ ch_warnings' = ch_warnings
    /\ ch_years_done' = ch_years_done + 1
    /\ UNCHANGED <<ch_pc, ch_start, ch_end, frequency, ch_catalog,
                   ch_features, ch_out, ch_error>>
    /\ CHFrame

\* Lines 657-679: the table, its dates, its order.
CHFinal ==
    /\ \/ ch_pc = "final"
       \/ ch_pc = "monthly" /\ ch_years_done = Len(ChirpsYears)
    /\ IF frequency = "monthly" /\ dfs = <<>>
       THEN \* pd.concat refuses an empty list
            /\ ch_pc' = "raised"
            /\ ch_error' = "ValueError"
            /\ ch_out' = ch_out
       ELSE LET df == IF frequency = "monthly" THEN PdConcat(dfs)
                      ELSE EeToDf(ch_features)
                dated == [i \in 1..Len(df.rows) |->
                            [date |-> ToDatetime(df.rows[i].date),
                             vals |-> df.rows[i].vals]]
            IN  IF df.rows = <<>>
                THEN \* a table without rows has no 'date' column
                     /\ ch_pc' = "raised"
                     /\ ch_error' = "KeyError"
                     /\ ch_out' = ch_out
                ELSE \E sorted \in SortValues(dated) :
                     /\ ch_out' = [columns |-> df.columns, rows |-> sorted]
                     /\ ch_pc' = "done"
                     /\ ch_error' = ch_error
    /\ UNCHANGED <<ch_start, ch_end, frequency, ch_catalog, ch_features, dfs,
                   ch_years_done, ch_warnings>>
    /\ CHFrame

CHNext == CHValidate \/ CHDaily \/ CHYear \/ CHFinal

ClimateInit == TCInit \/ CHInit

ClimateNext == TCNext \/ CHNext

SpecClimate == ClimateInit /\ [][ClimateNext]_vars

---------------------------------------------------------------------------
\* Claims about get_TerraClimate and get_CHIRPS (checked under SpecClimate).

\* How many rows of a table have the timestamp ts.
CountDate(rows, ts) == Cardinality({i \in 1..Len(rows) : rows[i].date = ts})

\* The rows of `out` are the rows that were assembled, each kept once per
\* occurrence, whatever their timestamps.
KeepsEveryRow(out, assembled) ==
    /\ Len(out) = Len(assembled)
    /\ \A i \in 1..Len(assembled) :
        CountDate(out, ToDatetime(assembled[i].date))
            = Cardinality({j \in 1..Len(assembled) :
                             ToDatetime(assembled[j].date)
                                 = ToDatetime(assembled[i].date)})

\* The rows get_CHIRPS assembled before sorting them.
ChirpsAssembled ==
    IF frequency = "monthly" THEN ConcatRows(dfs) ELSE ch_features

\* C8: the tables get_TerraClimate and get_CHIRPS (daily and monthly) return
\* have their rows in non-decreasing timestamp order, whatever the order the
\* service returned the images or months in, and rows of equal timestamp
\* are all kept.
C8_TablesSortedByTimestamp ==
    /\ tc_pc = "done" =>
        /\ IsSortedByDate(tc_out.rows)
        /\ KeepsEveryRow(tc_out.rows, tc_features)
    /\ ch_pc = "done" =>
        /\ IsSortedByDate(ch_out.rows)
        /\ KeepsEveryRow(ch_out.rows, ChirpsAssembled)

\* A TerraClimate table made from images the service returned latest first.
C8_Witness ==
    /\ tc_pc = "done"
    /\ Len(tc_features) = 2
    /\ DateKey(ToDatetime(tc_features[1].date))
          > DateKey(ToDatetime(tc_features[2].date))
    /\ Len(tc_out.rows) = 2
    /\ tc_out.rows[1].date = ToDatetime(tc_features[2].date)

\* C10 (as claimed): the columns of the table get_TerraClimate returns are
\* exactly <v>_<s> for the selected valid variables v and statistics s, also
\* when the reduction yields no value for some of them.
C10_ColumnSetFixed ==
    tc_pc = "done" =>
        tc_out.columns = Elems(vars_selected) \X Elems(stats_selected)

C27_EveryDayInOneMonthlyTotal ==
    (ch_pc = "done" /\ frequency = "monthly" /\ ch_warnings = {}) =>
        \A d \in Chirps :
            LET ts == ToDatetime(FormatYearMonth(d))
                of_month == {i \in 1..Len(ch_out.rows) : ch_out.rows[i].date = ts}
            IN  /\ Cardinality(of_month) = 1
                /\ \A i \in of_month :
                      ch_out.rows[i].vals[<<"pr", "mean">>]
                         = SumRain({e \in Chirps :
                                      FormatYearMonth(e) = FormatYearMonth(d)})

\* The rows of the months of the years of the monthly loop that did not
\* fail.
RowsOfYearsThatDidNotFail ==
    {<<y, m, 1>> : y \in {2000, 2001}, m \in {1, 12}} \cap
    {ToDatetime(FormatYearMonth(d)) :
        d \in UNION {YearChirps(ChirpsYears[k]) :
                       k \in {j \in 1..Len(ChirpsYears) :
                                 ChirpsYears[j] \notin ch_warnings}}}

\* C12 (as claimed): in monthly mode, whatever years of the loop failed
\* (possibly all of them), the call does not raise and returns the monthly
\* rows of every year that did not fail.
C12_FailingYearsNeverFatal ==
    (frequency = "monthly" /\ ch_warnings # {}) =>
        /\ ch_pc # "raised"
        /\ ch_pc = "done" =>
              {ch_out.rows[i].date : i \in 1..Len(ch_out.rows)}
                  = RowsOfYearsThatDidNotFail

\* The variables or stats argument of the call holds a name outside the
\* valid set.
TCHasInvalidName ==
    \/ tc_variables.given /\ \E v \in Elems(tc_variables.list) : v \notin valid_vars
    \/ tc_stats.given /\ \E x \in Elems(tc_stats.list) : x \notin Elems(valid_stats)

\* C13 (as claimed): whenever the variables or stats argument of
\* get_TerraClimate holds a name outside the valid set, the call raises a
\* validation error before any service call; it never goes on with the
\* remaining valid names.
C13_InvalidNameAlwaysRejected ==
    (tc_pc # "idle" /\ TCHasInvalidName) =>
        /\ tc_pc \in {"validate", "raised"}
        /\ tc_pc = "raised" => (tc_error = "ValueError" /\ tc_images = <<>>)

\* C17: extract_mapbiomas takes the geometry of a Feature or
\* FeatureCollection, and when the bounds of the region come back empty or
\* without a 'coordinates' entry it raises ValueError with no working
\* directory made and no file written; no directory is made and nothing is
\* exported before the bounds were accepted.
C17_ValidationBeforeAnyFile ==
    /\ mb_bounds \in {"empty", "no_coordinates"} =>
          /\ mb_pc = "raised"
          /\ mb_raised = [at |-> "validate", exc |-> "ValueError"]
          /\ fs = {}
          /\ temp_dir = NoDir
    /\ (fs # {} \/ temp_dir # NoDir) =>
          (mb_bounds = "valid" /\ mb_roi = "Geometry")

\* A region whose bounds came back without coordinates: refused
\* with nothing on disk.
C17_Witness ==
    /\ mb_bounds = "no_coordinates"
    /\ mb_pc = "raised"
    /\ mb_raised.exc = "ValueError"
    /\ fs = {}


\* The place of a phase in the order of an invocation: the validation of
\* the region, the preparation of the working directory, the loop over the
\* years, the stack, the SRTM layer, the terrain layers, the metadata, the
\* cleanup, the return; an exception may end any phase.
PhaseRank(pc) ==
    CASE pc = "validate" -> 1
      [] pc \in {"mkdir", "roi_file", "band_names"} -> 2
      [] pc = "years" -> 3
      [] pc = "concat" -> 4
      [] pc = "srtm" -> 5
      [] pc = "terrain" -> 6
      [] pc = "finalize" -> 7
      [] pc = "cleanup" -> 8
      [] pc = "returned" -> 9
      [] OTHER -> 10

\* The years whose raster file exists in the working directory.
YearsExported == {y \in RequestableYears : YearTif(temp_dir, y) \in fs}

\* Whether work on an auxiliary layer has begun.
AuxiliaryBegun ==
    \/ ds.layers # {}
    \/ mb_aux_failed # {}
    \/ \E p \in fs : p[2] \in {"srtm", "terrain"}

\* C28: an invocation never goes back to an earlier phase; no year is
\* exported before the region was validated; the raster of a year is read
\* and appended before the next year is exported; the auxiliary layers are
\* begun only once every retained year is in the stack; the cleanup begins
\* only once the metadata is attached.
C28_PhasesInOrder ==
    /\ [][PhaseRank(mb_pc') >= PhaseRank(mb_pc)]_vars
    /\ []((YearsExported # {} \/ da_list # <<>>) => mb_bounds = "valid")
    /\ [](\A y \in YearsExported :
             \/ \E i \in 1..Len(da_list) : valid_years[i] = y
             \/ /\ mb_pc = "raised"
                /\ mb_raised.at = "years"
                /\ valid_years[Len(da_list) + 1] = y)
    /\ [](AuxiliaryBegun =>
             /\ ds.stack.made
             /\ ds.stack.times = [i \in 1..Len(valid_years) |->
                                     YearStamp(valid_years[i])])
    /\ []((mb_pc \in {"cleanup", "returned"} \/ rm_log # <<>>) => ds.attrs)

\* An invocation that went through every phase: two years exported and
\* stacked, the SRTM layer and a terrain layer added, the metadata attached,
\* the working directory removed.
C28_Witness ==
    /\ mb_pc = "returned"
    /\ Len(da_list) = 2
    /\ ds.stack.made
    /\ {"srtm_elevation", "hillshade"} \subseteq ds.layers
    /\ ds.attrs
    /\ rm_log # <<>>
    /\ rm_log[Len(rm_log)] = "ok"

---------------------------------------------------------------------------
\* Claims about the diagnostic messages of suppressed failures.

\* C14 (as claimed): a message about a per-item failure that the call
\* suppresses is produced only when the call's debug flag is set; with debug
\* false index_to_timeseries prints nothing about a failed id and
\* extract_mapbiomas writes nothing about a terrain layer that failed.
C14_SilentUnlessDebug ==
    /\ ~idx_debug => idx_msgs = <<>>
    /\ ~mb_debug => \A m \in mb_msgs : m[1] # "terrain_failed"

---------------------------------------------------------------------------
\* get_clear_sky_percentage(img, roi, debug=False)  (clouds.py)

\* The bands an image may have.
ImageBands == SUBSET {"QA_PIXEL", "SCL", "MSK_CLDPRB", "B4"}

\* clouds.py lines 103-110: the scale of the reduction.
ClearSkyScale(bands) ==
    IF "QA_PIXEL" \in bands THEN 30
    ELSE IF "SCL" \in bands THEN 10
    ELSE IF "MSK_CLDPRB" \in bands THEN 20
    ELSE 10

\* custom_mask_clouds (clouds.py lines 32-69): the band the mask is made
\* from; for an SCL image the test of lines 43-57 either finds clear pixels,
\* finds none, or fails and is passed over.
SclTests == {"some", "zero", "failed"}

CustomMaskClouds(bands, test) ==
    IF "QA_PIXEL" \in bands THEN "QA_PIXEL"
    ELSE IF "SCL" \in bands
         THEN IF test = "zero" /\ "MSK_CLDPRB" \in bands
              THEN "MSK_CLDPRB" ELSE "SCL"
    ELSE IF "MSK_CLDPRB" \in bands THEN "MSK_CLDPRB"
    ELSE "none"

\* The dictionary reduceRegion(...).getInfo() may return (clouds.py lines
\* 119-124), as the list of its values: empty, a null mean, or the mean of
\* the mask in 1/10000.
ClearStats == {<<>>, <<None>>, <<0>>, <<4567>>, <<10000>>}

\* clouds.py line 134: round(clear_mean * 100, 1), in tenths of a percent.
RoundPercent(clear_mean) == (clear_mean + 5) \div 10

\* clouds.py lines 136-139: the handler of the whole body.
CSCaught ==
    /\ cs_pc' = "returned"
    /\ cs_out' = None
    /\ cs_msgs' = IF cs_debug THEN cs_msgs \cup {<<"error", "">>} ELSE cs_msgs

CSInit ==
    /\ IdxIdle /\ MBIdle /\ TCIdle /\ CHIdle /\ AuxIdle
    /\ CCIdle /\ RFIdle /\ FRIdle
    /\ cs_pc = "scale"
    /\ cs_bands \in ImageBands
    /\ cs_debug \in BOOLEAN
    /\ cs_scale = None
    /\ cs_mask = ""
    /\ cs_out = None
    /\ cs_msgs = {}

\* clouds.py lines 102-110.
CSScale ==
    /\ cs_pc = "scale"
    /\ \E ok \in BOOLEAN :
        IF ok
        THEN /\ cs_scale' = ClearSkyScale(cs_bands)
             /\ cs_pc' = "mask"
             /\ UNCHANGED <<cs_out, cs_msgs>>
        ELSE /\ CSCaught
             /\ UNCHANGED cs_scale
    /\ UNCHANGED <<cs_bands, cs_debug, cs_mask>>
    /\ CSFrame

\* clouds.py line 113.
CSMask ==
    /\ cs_pc = "mask"
    /\ \E ok \in BOOLEAN, test \in SclTests :
        IF ok
        THEN /\ cs_mask' = CustomMaskClouds(cs_bands, test)
             /\ cs_pc' = "reduce"
             /\ UNCHANGED <<cs_out, cs_msgs>>
        ELSE /\ test = "failed"
             /\ CSCaught
             /\ UNCHANGED cs_mask
    /\ UNCHANGED <<cs_bands, cs_debug, cs_scale>>
    /\ CSFrame

\* clouds.py lines 116-134.
CSReduce ==
    /\ cs_pc = "reduce"
    /\ \E ok \in BOOLEAN, stats \in ClearStats :
        IF ~ok
        THEN stats = <<>> /\ CSCaught
        ELSE IF stats = <<>>
        THEN /\ cs_pc' = "returned"
             /\ cs_out' = None
             /\ cs_msgs' = IF cs_debug THEN cs_msgs \cup {<<"empty", "">>}
                           ELSE cs_msgs
        ELSE IF stats[1] = None
        THEN \* None * 100 is a TypeError
             CSCaught
        ELSE /\ cs_pc' = "returned"
             /\ cs_out' = RoundPercent(stats[1])
             /\ UNCHANGED cs_msgs
    /\ UNCHANGED <<cs_bands, cs_debug, cs_scale, cs_mask>>
    /\ CSFrame

CSNext == CSScale \/ CSMask \/ CSReduce

SpecClearSky == CSInit /\ [][CSNext]_vars

---------------------------------------------------------------------------
\* Claims about the scale of a region reduction.

\* The lookup on band presence: 30 with QA_PIXEL, else 20 with SCL, else 10.
FixedScaleLookup(bands) ==
    IF "QA_PIXEL" \in bands THEN 30 ELSE IF "SCL" \in bands THEN 20 ELSE 10

\* C15 (as claimed): when the caller gives no scale, the scale of the
\* reduction is 30 for an image with band QA_PIXEL, else 20 for one with
\* band SCL, else 10, in index_to_timeseries and in
\* get_clear_sky_percentage; a scale the caller gives is used unchanged.
C15_OneFixedScaleLookup ==
    /\ \A i \in 1..Len(idx_svc) :
          idx_svc[i].stage \in {"ok", "reduceRegion"} =>
              LET k == Cardinality({j \in 1..i :
                          idx_svc[j].stage \in {"ok", "reduceRegion"}})
              IN  idx_used_scale[k] =
                      IF idx_scale = None
                      THEN FixedScaleLookup(idx_svc[i].bands)
                      ELSE idx_scale
    /\ cs_scale # None => cs_scale = FixedScaleLookup(cs_bands)

---------------------------------------------------------------------------
\* Two calls of extract_mapbiomas that overlap in time in one process (two
\* threads, one current directory): the steps of each call that touch the
\* filesystem, interleaved.

\* Line 765: datetime.datetime.now().strftime('%Y%m%d_%H%M%S'), the instant
\* cut to its second.
Timestamp(instant) == instant \div TicksPerSecond

\* The valid years of a call.
CCYearLists == {<<2000>>, <<2000, 2001>>}

\* A call that has its working directory and has not ended.
CCRunning(c) == cc_pc[c] \in {"roi_file", "export", "read", "cleanup"}

\* The paths among `paths` that do not exist yet: the ones a call creates.
CCCreated(paths) == paths \ cc_fs

CCInit ==
    /\ IdxIdle /\ MBIdle /\ TCIdle /\ CHIdle /\ AuxIdle
    /\ CSIdle /\ RFIdle /\ FRIdle
    /\ cc_clock = 0
    /\ cc_fs = {}
    /\ cc_pc = [c \in Calls |-> "mkdir"]
    /\ cc_years \in [Calls -> CCYearLists]
    /\ cc_dir = [c \in Calls |-> None]
    /\ cc_read = [c \in Calls |-> 0]
    /\ cc_wrote = [c \in Calls |-> {}]
    /\ cc_rm = [c \in Calls |-> 0]
    /\ cc_error = [c \in Calls |-> NoExc]
    /\ cc_lost = {}

\* Time passes.
CCTick ==
    /\ cc_clock < MaxClock
    /\ cc_clock' = cc_clock + 1
    /\ UNCHANGED <<cc_fs, cc_pc, cc_years, cc_dir, cc_read, cc_wrote, cc_rm,
                   cc_error, cc_lost>>
    /\ CCFrame

\* Lines 765-767: temp_dir.mkdir(exist_ok=True) accepts a directory that
\* is already there.
CCMakeDir(c) ==
    /\ cc_pc[c] = "mkdir"
    /\ LET d == Timestamp(cc_clock) IN
        /\ cc_dir' = [cc_dir EXCEPT ![c] = d]
        /\ cc_fs' = cc_fs \cup {DirPath(d)}
        /\ cc_wrote' = [cc_wrote EXCEPT ![c] = @ \cup CCCreated({DirPath(d)})]
    /\ cc_pc' = [cc_pc EXCEPT ![c] = "roi_file"]
    /\ UNCHANGED <<cc_clock, cc_years, cc_read, cc_rm, cc_error, cc_lost>>
    /\ CCFrame

\* Lines 769-772: roi_to_file makes the parent directory again if it is
\* gone (io.py lines 58-60) and writes roi.geojson.
CCRoiToFile(c) ==
    /\ cc_pc[c] = "roi_file"
    /\ \E ok \in BOOLEAN :
        IF ok
        THEN LET new == {DirPath(cc_dir[c]),
                         NamedFile(cc_dir[c], "roi", "geojson")}
             IN  /\ cc_fs' = cc_fs \cup new
                 /\ cc_wrote' = [cc_wrote EXCEPT ![c] = @ \cup CCCreated(new)]
                 /\ cc_pc' = [cc_pc EXCEPT ![c] = "export"]
                 /\ UNCHANGED cc_error
        ELSE /\ cc_pc' = [cc_pc EXCEPT ![c] = "raised"]
             /\ cc_error' = [cc_error EXCEPT ![c] = "EEException"]
             /\ UNCHANGED <<cc_fs, cc_wrote>>
    /\ UNCHANGED <<cc_clock, cc_years, cc_dir, cc_read, cc_rm, cc_lost>>
    /\ CCFrame

\* Lines 792-803: geemap.ee_export_image writes the year's raster, or
\* reports its error and writes nothing (also when the directory is gone).
CCExport(c) ==
    /\ cc_pc[c] = "export"
    /\ \E ok \in BOOLEAN :
        LET tif == YearTif(cc_dir[c], cc_years[c][cc_read[c] + 1])
            new == IF ok /\ DirPath(cc_dir[c]) \in cc_fs THEN {tif} ELSE {}
        IN  /\ cc_fs' = cc_fs \cup new
            /\ cc_wrote' = [cc_wrote EXCEPT ![c] = @ \cup CCCreated(new)]
    /\ cc_pc' = [cc_pc EXCEPT ![c] = "read"]
    /\ UNCHANGED <<cc_clock, cc_years, cc_dir, cc_read, cc_rm, cc_error,
                   cc_lost>>
    /\ CCFrame

\* Lines 805-814: the raster read back.
CCRead(c) ==
    /\ cc_pc[c] = "read"
    /\ IF YearTif(cc_dir[c], cc_years[c][cc_read[c] + 1]) \in cc_fs
       THEN /\ cc_read' = [cc_read EXCEPT ![c] = @ + 1]
            /\ cc_pc' = [cc_pc EXCEPT ![c] =
                            IF cc_read'[c] = Len(cc_years[c])
                            THEN "cleanup" ELSE "export"]
            /\ UNCHANGED cc_error
       ELSE /\ cc_pc' = [cc_pc EXCEPT ![c] = "raised"]
            /\ cc_error' = [cc_error EXCEPT ![c] = "RasterioIOError"]
            /\ UNCHANGED cc_read
    /\ UNCHANGED <<cc_clock, cc_fs, cc_years, cc_dir, cc_wrote, cc_rm,
                   cc_lost>>
    /\ CCFrame

\* Lines 891-902: one pass of the cleanup loop; shutil.rmtree removes the
\* directory with everything in it, whoever wrote it.
CCCleanup(c) ==
    /\ cc_pc[c] = "cleanup"
    /\ cc_rm[c] < CleanupAttempts
    /\ \E o \in RmtreeOutcomes(DirPath(cc_dir[c]) \in cc_fs) :
        /\ cc_rm' = [cc_rm EXCEPT ![c] = @ + 1]
        /\ IF o = "ok"
           THEN LET removed == {x \in cc_fs : x[1] = cc_dir[c]} IN
                /\ cc_fs' = cc_fs \ removed
                /\ cc_lost' = cc_lost \cup
                      {l \in {c} \X (Calls \ {c}) \X removed :
                           CCRunning(l[2]) /\ l[3] \in cc_wrote[l[2]]}
                /\ cc_pc' = [cc_pc EXCEPT ![c] = MBAfterRemoved]
                /\ UNCHANGED cc_error
           ELSE IF MBCleanupCatches(o)
           THEN /\ cc_pc' = [cc_pc EXCEPT ![c] =
                               IF cc_rm'[c] = CleanupAttempts
                               THEN "returned" ELSE "cleanup"]
                /\ UNCHANGED <<cc_fs, cc_lost, cc_error>>
           ELSE /\ cc_pc' = [cc_pc EXCEPT ![c] = "raised"]
                /\ cc_error' = [cc_error EXCEPT ![c] = o]
                /\ UNCHANGED <<cc_fs, cc_lost>>
    /\ UNCHANGED <<cc_clock, cc_years, cc_dir, cc_read, cc_wrote>>
    /\ CCFrame

CCNext ==
    \/ CCTick
    \/ \E c \in Calls :
          CCMakeDir(c) \/ CCRoiToFile(c) \/ CCExport(c) \/ CCRead(c)
          \/ CCCleanup(c)

SpecMBOverlap == CCInit /\ [][CCNext]_vars

\* C16 (as claimed): two calls of extract_mapbiomas that overlap in time
\* never have the same working directory, and the cleanup of one never
\* removes a path that the other, still running, created, also when both
\* start within the same second.
C16_WorkingDirNeverShared ==
    /\ \A c, q \in Calls :
          (c # q /\ CCRunning(c) /\ CCRunning(q)) => cc_dir[c] # cc_dir[q]
    /\ cc_lost = {}

---------------------------------------------------------------------------
\* roi_to_file(roi, filename, format='geojson', wrap_geometry=True)  (io.py)

\* The roi arguments: an ee.Geometry of some type, an ee.Feature, an
\* ee.FeatureCollection of some features, or an object of another class.
GeometryTypes == {"Polygon", "MultiPolygon", "Point", "LineString"}

RoiArguments ==
    [class : {"Geometry"}, geoms : {<<t>> : t \in GeometryTypes}]
    \cup [class : {"Feature"}, geoms : {<<"Polygon">>, <<"Point">>}]
    \cup [class : {"FeatureCollection"},
          geoms : {<<>>, <<"Polygon">>, <<"Polygon", "MultiPolygon">>}]
    \cup [class : {"str"}, geoms : {<<>>}]

\* The filename arguments: with or without a directory, with or without a
\* suffix.
FilenameArguments ==
    {[dir |-> "", stem |-> "roi", suffix |-> ""],
     [dir |-> "out", stem |-> "roi", suffix |-> ".geojson"],
     [dir |-> "out", stem |-> "roi", suffix |-> ".v2"]}

FormatArguments == {"geojson", "shp", "kml", "GeoJSON"}

\* io.py line 57: Path(filename).with_suffix('').
WithoutSuffix(f) == [f EXCEPT !.suffix = ""]

\* io.py line 63: the geometry types an ee.Geometry may have.
RFGeometryAcceptedMutant(t) == t \in GeometryTypes
RFGeometryAccepted(t) == t \in {"Polygon", "MultiPolygon"}

\* io.py lines 86, 89, 101: the branch of the format.
RFFormatBranch(fmt) ==
    IF fmt = "geojson" THEN "geojson"
    ELSE IF fmt = "shp" THEN "shp" ELSE "invalid"

\* Coordinates are counted in units of 10^-16 degree (the model's regions
\* lie within 2 * 10^-7 degree of the origin).
Coordinates == {0, 123456789, 1400000004}

\* A coordinate rounded to a multiple of `unit`.
RoundTo(c, unit) == ((c + unit \div 2) \div unit) * unit

\* gdf.to_file(output_path, driver='GeoJSON') (io.py line 88): the driver
\* writes a coordinate with GeoJsonPrecision figures after the decimal
\* point.
GeoJsonPrecision == 15

GeoJsonCoordinateMutant(c) == RoundTo(c, 10^(16 - 7))
GeoJsonCoordinate(c) == RoundTo(c, 10^(16 - GeoJsonPrecision))

\* The rows of the GeoDataFrame of lines 81-82, one per feature, in order.
RFRows(features, coords) ==
    [i \in 1..Len(features) |-> [type |-> features[i], xy |-> coords[i]]]

\* io.py lines 87-88: the GeoJSON file; GeoJSON is in EPSG:4326.
WriteGeoJson(features, coords) ==
    [exists |-> TRUE, ext |-> ".geojson", members |-> {},
     crs |-> "EPSG:4326",
     geoms |-> [i \in 1..Len(features) |->
                  [type |-> RFRows(features, coords)[i].type,
                   xy |-> GeoJsonCoordinate(RFRows(features, coords)[i].xy)]]]

\* A shapefile stores a coordinate as the 8-byte float it is.
ShpCoordinate(c) == c

\* io.py lines 90-100: the shapefile written in a temporary directory and
\* its components put at the top of the archive; the system of line 82 is
\* in its .prj.
ShpComponents == {".shp", ".shx", ".dbf", ".prj", ".cpg"}

WriteShpZip(base_name, features, coords) ==
    [exists |-> TRUE, ext |-> ".zip",
     members |-> {<<"", base_name, e>> : e \in ShpComponents},
     crs |-> "EPSG:4326",
     geoms |-> [i \in 1..Len(features) |->
                  [type |-> RFRows(features, coords)[i].type,
                   xy |-> ShpCoordinate(RFRows(features, coords)[i].xy)]]]

RFRaise(exc) ==
    /\ rf_pc' = "raised"
    /\ rf_error' = exc

RFInit ==
    /\ IdxIdle /\ MBIdle /\ TCIdle /\ CHIdle /\ AuxIdle
    /\ CSIdle /\ CCIdle /\ FRIdle
    /\ rf_pc = "prepare"
    /\ rf_roi \in RoiArguments
    /\ rf_filename \in FilenameArguments
    /\ rf_format \in FormatArguments
    /\ wrap_geometry \in BOOLEAN
    /\ rf_fs = {}
    /\ rf_svc = 0
    /\ rf_features = <<>>
    /\ rf_out = NoPath
    /\ rf_coords \in [1..Len(rf_roi.geoms) -> Coordinates]
    /\ rf_file = NoFile
    /\ rf_error = NoExc

\* io.py lines 57-60: the suffix dropped, the parent directory made.
RFPrepare ==
    /\ rf_pc = "prepare"
    /\ rf_filename' = WithoutSuffix(rf_filename)
    /\ rf_fs' = IF rf_filename.dir = "" THEN rf_fs
                ELSE rf_fs \cup {Dir(rf_filename.dir)}
    /\ rf_pc' = "features"
    /\ UNCHANGED <<rf_roi, rf_coords, rf_format, wrap_geometry, rf_svc, rf_features,
                   rf_out, rf_file, rf_error>>
    /\ RFFrame

\* io.py lines 62-78: the features of the roi; `ok` is whether the
\* service answers the getInfo() calls.
RFFeatures ==
    /\ rf_pc = "features"
    /\ \E ok \in BOOLEAN :
        CASE rf_roi.class = "Geometry" ->
               IF ~ok
               THEN /\ RFRaise("EEException")
                    /\ rf_svc' = rf_svc + 1
                    /\ UNCHANGED rf_features
               ELSE IF ~RFGeometryAccepted(rf_roi.geoms[1])
               THEN /\ RFRaise("ValueError")
                    /\ rf_svc' = rf_svc + 1
                    /\ UNCHANGED rf_features
               ELSE IF ~wrap_geometry
               THEN /\ RFRaise("ValueError")
                    /\ rf_svc' = rf_svc + 1
                    /\ UNCHANGED rf_features
               ELSE /\ rf_features' = rf_roi.geoms
                    /\ rf_svc' = rf_svc + 2
                    /\ rf_pc' = "convert"
                    /\ UNCHANGED rf_error
          [] rf_roi.class = "Feature" ->
               /\ rf_svc' = rf_svc + 1
               /\ IF ok
                  THEN /\ rf_features' = rf_roi.geoms
                       /\ rf_pc' = "convert"
                       /\ UNCHANGED rf_error
                  ELSE /\ RFRaise("EEException")
                       /\ UNCHANGED rf_features
          [] rf_roi.class = "FeatureCollection" ->
               /\ rf_svc' = rf_svc + 1
               /\ IF ok
                  THEN /\ rf_features' = rf_roi.geoms
                       /\ rf_pc' = "convert"
                       /\ UNCHANGED rf_error
                  ELSE /\ RFRaise("RuntimeError")
                       /\ UNCHANGED rf_features
          [] OTHER ->
               /\ ok
               /\ RFRaise("TypeError")
               /\ UNCHANGED <<rf_svc, rf_features>>
    /\ UNCHANGED <<rf_roi, rf_coords, rf_filename, rf_format, wrap_geometry, rf_fs,
                   rf_out, rf_file>>
    /\ RFFrame

\* io.py lines 80-84: the GeoDataFrame; whatever fails is raised again as
\* RuntimeError.
RFConvert ==
    /\ rf_pc = "convert"
    /\ \E ok \in BOOLEAN :
        IF ok
        THEN rf_pc' = "write" /\ UNCHANGED rf_error
        ELSE RFRaise("RuntimeError")
    /\ UNCHANGED <<rf_roi, rf_coords, rf_filename, rf_format, wrap_geometry, rf_fs,
                   rf_svc, rf_features, rf_out, rf_file>>
    /\ RFFrame

\* io.py lines 86-104: the file written in the format asked for.
RFWrite ==
    /\ rf_pc = "write"
    /\ \E ok \in BOOLEAN :
        LET branch == RFFormatBranch(rf_format)
            path == File(rf_filename.dir, rf_filename.stem,
                         IF branch = "geojson" THEN ".geojson" ELSE ".zip")
        IN  IF branch = "invalid"
            THEN /\ ok
                 /\ RFRaise("ValueError")
                 /\ UNCHANGED <<rf_fs, rf_out, rf_file>>
            ELSE IF ok
            THEN /\ rf_fs' = rf_fs \cup {path}
                 /\ rf_out' = path
                 /\ rf_file' = IF branch = "geojson"
                               THEN WriteGeoJson(rf_features, rf_coords)
                               ELSE WriteShpZip(rf_filename.stem,
                                                rf_features, rf_coords)
                 /\ rf_pc' = "returned"
                 /\ UNCHANGED rf_error
            ELSE /\ RFRaise("OSError")
                 /\ UNCHANGED <<rf_fs, rf_out, rf_file>>
    /\ UNCHANGED <<rf_roi, rf_coords, rf_filename, rf_format, wrap_geometry, rf_svc,
                   rf_features>>
    /\ RFFrame

RFNext == RFPrepare \/ RFFeatures \/ RFConvert \/ RFWrite

SpecRoiToFile == RFInit /\ [][RFNext]_vars

\* C18 (as claimed): a format other than 'geojson' and 'shp' makes
\* roi_to_file fail with ValueError at once: no service call is made, no
\* parent directory is created and no file is written, and the call goes no
\* further than its first step.
C18_BadFormatRejectedAtOnce ==
    (rf_pc # "idle" /\ rf_format \notin {"geojson", "shp"}) =>
        /\ rf_pc \in {"prepare", "raised"}
        /\ rf_svc = 0
        /\ rf_fs = {}
        /\ rf_pc = "raised" => rf_error = "ValueError"

\* roi_to_file was given a bare geometry, the service answered, and the
\* branch of lines 62-69 is behind it.
RFBareGeometryHandled ==
    /\ rf_roi.class = "Geometry"
    /\ rf_pc \in {"convert", "write", "returned", "raised"}
    /\ rf_error # "EEException"

\* The call ended with the ValueError of lines 64 or 68.
RFInvalidGeometryError ==
    /\ rf_pc = "raised"
    /\ rf_error = "ValueError"
    /\ rf_features = <<>>

\* The files (not directories) that exist.
RFFilesWritten == {x \in rf_fs : x[3] # "/"}

\* C19 (as claimed): a bare geometry makes roi_to_file fail with the
\* invalid-geometry ValueError exactly when wrap_geometry is false; with
\* wrap_geometry true a geometry of any type is wrapped; a failing call
\* writes no file.
C19_BareGeometryFailsIffNotWrapped ==
    RFBareGeometryHandled =>
        /\ RFInvalidGeometryError <=> ~wrap_geometry
        /\ RFInvalidGeometryError => RFFilesWritten = {}

\* C19 (amended): a bare geometry makes roi_to_file fail with ValueError
\* exactly when its type is not Polygon or MultiPolygon, whatever
\* wrap_geometry is, or when wrap_geometry is false; a Polygon or
\* MultiPolygon with wrap_geometry true is wrapped as the one feature of
\* the export; a failing call writes no file.
C19_BareGeometryNeedsPolygonAndWrap ==
    RFBareGeometryHandled =>
        /\ RFInvalidGeometryError <=>
              (~wrap_geometry
               \/ rf_roi.geoms[1] \notin {"Polygon", "MultiPolygon"})
        /\ RFInvalidGeometryError => RFFilesWritten = {}
        /\ ~RFInvalidGeometryError => rf_features = rf_roi.geoms

\* A bare point with wrap_geometry true: refused, nothing written.
C19_Witness ==
    /\ rf_roi = [class |-> "Geometry", geoms |-> <<"Point">>]
    /\ wrap_geometry
    /\ RFInvalidGeometryError
    /\ RFFilesWritten = {}

---------------------------------------------------------------------------
\* file_to_roi(filepath)  (io.py)

\* The members an archive may hold: <<folder, stem, extension>>, the folder
\* empty for a member at the top of the archive.
ArchiveMembers == {<<"", "roi", ".shp">>, <<"", "roi", ".dbf">>,
                   <<"sub", "roi", ".shp">>, <<"", "readme", ".txt">>}

\* The coordinate systems a file may declare ("" for none), and the
\* geometries of its rows.
FileCrs == {"", "EPSG:4326", "EPSG:31983"}
FileGeoms == {<<[type |-> "Polygon", xy |-> 123456789]>>,
              <<[type |-> "Polygon", xy |-> 0],
                [type |-> "MultiPolygon", xy |-> 1400000004]>>}

\* The files filepath may name.
FileArguments ==
    [exists : BOOLEAN, ext : {".zip"}, members : SUBSET ArchiveMembers,
     crs : FileCrs, geoms : FileGeoms]
    \cup [exists : BOOLEAN, ext : {".geojson", ".shp"}, members : {{}},
          crs : FileCrs, geoms : FileGeoms]

\* os.listdir(tmpdir) after extractall (io.py lines 149-150): the names at
\* the top of the directory, a folder of the archive being one name.
ListDir(members) ==
    {<<m[2], m[3]>> : m \in {x \in members : x[1] = ""}}
    \cup {<<m[1], "">> : m \in {x \in members : x[1] # ""}}

\* io.py line 150: the names that end with ".shp".
ShpFiles(names) == {n \in names : n[2] = ".shp"}

\* gdf.to_crs("EPSG:4326") (io.py line 164): the coordinates of another
\* system are transformed (the transformation stands for the projection's
\* inverse); set_crs (line 162) and a table already in EPSG:4326 leave
\* them as they are.
Reproject(crs, c) ==
    IF crs \in {"", "EPSG:4326"} THEN c ELSE c \div 1000

\* io.py lines 161-164: a table without a coordinate system is declared
\* EPSG:4326, any other is reprojected to it.
ToEpsg4326(gdf) ==
    [gdf EXCEPT !.crs = "EPSG:4326",
                !.geoms = [i \in 1..Len(gdf.geoms) |->
                             [gdf.geoms[i] EXCEPT
                                 !.xy = Reproject(gdf.crs, gdf.geoms[i].xy)]]]

FRRaise(exc) ==
    /\ fr_pc' = "raised"
    /\ fr_error' = exc

FRInit ==
    /\ IdxIdle /\ MBIdle /\ TCIdle /\ CHIdle /\ AuxIdle
    /\ CSIdle /\ CCIdle /\ RFIdle
    /\ fr_pc = "exists"
    /\ fr_file \in FileArguments
    /\ fr_tmp = NoTmp
    /\ fr_tmp_made = FALSE
    /\ fr_gdf = NoGdf
    /\ fr_out = <<>>
    /\ fr_error = NoExc

\* io.py lines 143-146.
FRExists ==
    /\ fr_pc = "exists"
    /\ IF ~fr_file.exists
       THEN FRRaise("FileNotFoundError")
       ELSE /\ fr_pc' = IF fr_file.ext = ".zip" THEN "extract" ELSE "read"
            /\ UNCHANGED fr_error
    /\ UNCHANGED <<fr_file, fr_tmp, fr_tmp_made, fr_gdf, fr_out>>
    /\ FRFrame

\* io.py lines 147-149: the temporary directory and the extraction; a
\* failure leaves the `with` block, which removes the directory.
FRExtract ==
    /\ fr_pc = "extract"
    /\ fr_tmp_made' = TRUE
    /\ \E ok \in BOOLEAN :
        IF ok
        THEN /\ fr_tmp' = [exists |-> TRUE, entries |-> fr_file.members]
             /\ fr_pc' = "read"
             /\ UNCHANGED fr_error
        ELSE /\ fr_tmp' = NoTmp
             /\ FRRaise("BadZipFile")
    /\ UNCHANGED <<fr_file, fr_gdf, fr_out>>
    /\ FRFrame

\* io.py lines 150-159: the table read; for an archive, from the first
\* .shp name of the temporary directory, which is removed when the `with`
\* block is left, by the return or by an exception.
FRRead ==
    /\ fr_pc = "read"
    /\ fr_tmp' = NoTmp
    /\ \E ok \in BOOLEAN :
        IF fr_file.ext = ".zip" /\ ShpFiles(ListDir(fr_tmp.entries)) = {}
        THEN /\ ok
             /\ FRRaise("ValueError")
             /\ UNCHANGED fr_gdf
        ELSE IF ok
        THEN /\ fr_gdf' = [read |-> TRUE, crs |-> fr_file.crs,
                           geoms |-> fr_file.geoms]
             /\ fr_pc' = "crs"
             /\ UNCHANGED fr_error
        ELSE /\ FRRaise(IF fr_file.ext = ".zip" THEN "DriverError"
                        ELSE "RuntimeError")
             /\ UNCHANGED fr_gdf
    /\ UNCHANGED <<fr_file, fr_tmp_made, fr_out>>
    /\ FRFrame

\* io.py lines 161-164.
FRCrs ==
    /\ fr_pc = "crs"
    /\ fr_gdf' = ToEpsg4326(fr_gdf)
    /\ fr_pc' = "convert"
    /\ UNCHANGED <<fr_file, fr_tmp, fr_tmp_made, fr_out, fr_error>>
    /\ FRFrame

\* io.py lines 166-177: one ee.Feature per row, in row order.
FRConvert ==
    /\ fr_pc = "convert"
    /\ \E ok \in BOOLEAN :
        IF ok
        THEN /\ fr_out' = fr_gdf.geoms
             /\ fr_pc' = "returned"
             /\ UNCHANGED fr_error
        ELSE /\ FRRaise("RuntimeError")
             /\ UNCHANGED fr_out
    /\ UNCHANGED <<fr_file, fr_tmp, fr_tmp_made, fr_gdf>>
    /\ FRFrame

FRNext == FRExists \/ FRExtract \/ FRRead \/ FRCrs \/ FRConvert

SpecFileToRoi == FRInit /\ [][FRNext]_vars

\* The call ended, with a value or an exception.
FREnded == fr_pc \in {"returned", "raised"}

\* C20 (as claimed): for a path ending in .zip, file_to_roi fails with the
\* missing-shapefile ValueError exactly when the archive has no .shp member
\* at any path inside it, and the temporary extraction directory is gone
\* when the call ends, whatever the outcome.
C20_ZipFailsIffNoShpMember ==
    (fr_file.ext = ".zip" /\ FREnded /\ fr_tmp_made
     /\ fr_error # "BadZipFile") =>
        /\ fr_error = "ValueError" <=>
              ~\E m \in fr_file.members : m[3] = ".shp"
        /\ ~fr_tmp.exists

---------------------------------------------------------------------------
\* The region codec: roi_to_file, then file_to_roi on the path it returned
\* (or file_to_roi on a file of another origin).

\* file_to_roi(roi_to_file(roi, filename, format)): the call of file_to_roi
\* finds the file that roi_to_file wrote.
CodecImport ==
    /\ rf_pc = "returned"
    /\ fr_pc = "idle"
    /\ fr_pc' = "exists"
    /\ fr_file' = rf_file
    /\ UNCHANGED <<fr_tmp, fr_tmp_made, fr_gdf, fr_out, fr_error>>
    /\ UNCHANGED <<csVars, ccVars, rfVars>>
    /\ AnalysisFrame

CodecInit == RFInit \/ FRInit

CodecNext == RFNext \/ CodecImport \/ FRNext

SpecCodec == CodecInit /\ [][CodecNext]_vars

\* The distance of two coordinates.
Distance(a, b) == IF a >= b THEN a - b ELSE b - a

\* file_to_roi returned the import of the file that roi_to_file wrote.
RoundTripDone == rf_pc = "returned" /\ fr_pc = "returned"

---------------------------------------------------------------------------
\* describe_roi (analysis.py 91-184)

\* A resolution is a number of tenths of a metre (102 is 10.2 m), an area a
\* number of square metres, a perimeter a number of metres.
DefaultResolutions == <<100, 300, 600>>

RoiClasses == {"Geometry", "Feature", "FeatureCollection", "dict"}

PixelResArguments ==
    { PixelResNone,
      [class |-> "int", values |-> <<100>>],
      [class |-> "list", values |-> <<10, 100, 300, 600, 1000>>],
      [class |-> "list", values |-> <<102, 107>>],
      [class |-> "list", values |-> <<300, 300>>],
      [class |-> "list", values |-> <<0>>],
      [class |-> "str", values |-> <<>>] }

\* What the service can answer for the area and for the perimeter.
Areas == {0, 50, 1000000}
Perimeters == {0, 4000}

\* int(res): the integer part of a resolution, in metres; the label is this
\* number followed by "m".
Label(res) == res \div 10

\* round(n / d) of Python 3: to the nearest integer, a tie to the even one.
RoundHalfEven(n, d) ==
    LET q == n \div d
        r == n % d
    IN  IF 2 * r < d THEN q
        ELSE IF 2 * r > d THEN q + 1
        ELSE IF q % 2 = 0 THEN q ELSE q + 1

\* int(round(area_m2 / (res**2))), res in tenths of a metre.
PixelCount(area, res) == RoundHalfEven(area * 100, res * res)

\* d[k] = v for a dict kept as <<key, value>> pairs in insertion order: a
\* key already present keeps its place and takes the new value.
DictPut(d, k, v) ==
    IF \E i \in 1..Len(d) : d[i][1] = k
    THEN [i \in 1..Len(d) |-> IF d[i][1] = k THEN <<k, v>> ELSE d[i]]
    ELSE Append(d, <<k, v>>)

\* The dict comprehension of lines 165-168 over the first n resolutions.
RECURSIVE PixelsDict(_, _, _)
PixelsDict(area, res_list, n) ==
    IF n = 0 THEN <<>>
    ELSE DictPut(PixelsDict(area, res_list, n - 1),
                 Label(res_list[n]), PixelCount(area, res_list[n]))

\* d[k], -1 when k is no key of d.
DictGet(d, k) ==
    IF \E i \in 1..Len(d) : d[i][1] = k
    THEN d[CHOOSE i \in 1..Len(d) : d[i][1] = k][2]
    ELSE None

\* The list resolutions of lines 155-160 for a pixel_res that is accepted.
Resolutions(arg) ==
    IF arg.class = "NoneType" THEN DefaultResolutions
    ELSE IF arg.class \in {"int", "float"} THEN arg.values
    ELSE arg.values

PixelResAccepted(arg) ==
    arg.class \in {"NoneType", "int", "float", "list", "tuple"}

DRRaise(e) ==
    /\ dr_pc' = "raised"
    /\ dr_error' = e

DRInit ==
    /\ IdxIdle /\ MBIdle /\ TCIdle /\ CHIdle /\ ExtIdleMain /\ LSIdle
    /\ SDIdle
    /\ dr_pc = "geometry"
    /\ dr_roi \in RoiClasses
    /\ show_pixels_table \in BOOLEAN
    /\ print_summary \in BOOLEAN
    /\ pixel_res \in PixelResArguments
    /\ dr_ipython \in BOOLEAN
    /\ dr_svc = 0
    /\ area_m2 = None
    /\ perimeter_m = None
    /\ resolutions = <<>>
    /\ pixels_dict = <<>>
    /\ dr_df = NoDf
    /\ dr_msgs = <<>>
    /\ dr_error = NoExc

\* Lines 133-141: the class of roi.
DRGeometry ==
    /\ dr_pc = "geometry"
    /\ IF dr_roi \in {"FeatureCollection", "Feature", "Geometry"}
       THEN dr_pc' = "area" /\ UNCHANGED dr_error
       ELSE DRRaise("TypeError")
    /\ UNCHANGED <<dr_roi, show_pixels_table, print_summary, pixel_res,
                   dr_ipython, dr_svc, area_m2, perimeter_m, resolutions,
                   pixels_dict, dr_df, dr_msgs>>
    /\ DRFrame

\* Line 144: geom.area(ee.ErrorMargin(1)).getInfo().
DRArea ==
    /\ dr_pc = "area"
    /\ dr_svc' = dr_svc + 1
    /\ \/ \E a \in Areas :
            /\ area_m2' = a
            /\ dr_pc' = "perimeter"
            /\ UNCHANGED dr_error
       \/ /\ DRRaise("EEException")
          /\ UNCHANGED area_m2
    /\ UNCHANGED <<dr_roi, show_pixels_table, print_summary, pixel_res,
                   dr_ipython, perimeter_m, resolutions, pixels_dict, dr_df,
                   dr_msgs>>
    /\ DRFrame

\* Line 145: geom.perimeter(maxError=1).getInfo().
DRPerimeter ==
    /\ dr_pc = "perimeter"
    /\ dr_svc' = dr_svc + 1
    /\ \/ \E m \in Perimeters :
            /\ perimeter_m' = m
            /\ dr_pc' = "report"
            /\ UNCHANGED dr_error
       \/ /\ DRRaise("EEException")
          /\ UNCHANGED perimeter_m
    /\ UNCHANGED <<dr_roi, show_pixels_table, print_summary, pixel_res,
                   dr_ipython, area_m2, resolutions, pixels_dict, dr_df,
                   dr_msgs>>
    /\ DRFrame

\* Lines 147-184: the summary, the resolutions, the counts, the table.
DRReport ==
    /\ dr_pc = "report"
    /\ LET summary == IF print_summary THEN <<"summary">> ELSE <<>>
           res_list == Resolutions(pixel_res)
           counts == PixelsDict(area_m2, res_list, Len(res_list))
           rows == [i \in 1..Len(res_list) |->
                      [res |-> res_list[i], area |-> res_list[i] * res_list[i],
                       n |-> counts[i][2]]]
       IN  IF ~PixelResAccepted(pixel_res)
           THEN /\ DRRaise("ValueError")
                /\ dr_msgs' = summary
                /\ UNCHANGED <<resolutions, pixels_dict, dr_df>>
           ELSE IF \E i \in 1..Len(res_list) : res_list[i] = 0
           THEN /\ DRRaise("ZeroDivisionError")
                /\ dr_msgs' = summary
                /\ resolutions' = res_list
                /\ UNCHANGED <<pixels_dict, dr_df>>
           ELSE IF ~show_pixels_table
           THEN /\ dr_pc' = "returned"
                /\ dr_msgs' = summary
                /\ resolutions' = res_list
                /\ pixels_dict' = counts
                /\ UNCHANGED <<dr_df, dr_error>>
           ELSE IF Len(counts) # Len(res_list)
           THEN \* pd.DataFrame: columns of different lengths
                /\ DRRaise("ValueError")
                /\ dr_msgs' = summary
                /\ resolutions' = res_list
                /\ pixels_dict' = counts
                /\ UNCHANGED dr_df
           ELSE IF ~dr_ipython
           THEN \* display is no name of the module, nor a builtin
                /\ DRRaise("NameError")
                /\ dr_msgs' = summary
                /\ resolutions' = res_list
                /\ pixels_dict' = counts
                /\ dr_df' = <<rows>>
           ELSE /\ dr_pc' = "returned"
                /\ dr_msgs' = summary \o <<"table">>
                /\ resolutions' = res_list
                /\ pixels_dict' = counts
                /\ dr_df' = <<rows>>
                /\ UNCHANGED dr_error
    /\ UNCHANGED <<dr_roi, show_pixels_table, print_summary, pixel_res,
                   dr_ipython, dr_svc, area_m2, perimeter_m>>
    /\ DRFrame

DRNext == DRGeometry \/ DRArea \/ DRPerimeter \/ DRReport

SpecDescribeRoi == DRInit /\ [][DRNext]_vars

\* C22: describe_roi returns round(area_m2 / r^2) under the label of every
\* resolution r of the requested list (10, 30 and 60 by default, the number
\* itself when pixel_res is one number), and the error for a pixel_res of
\* another type is raised before any request for the area or the perimeter
\* is made.
C22_CountsAndEarlyTypeError ==
    /\ dr_pc = "returned" =>
          /\ resolutions = Resolutions(pixel_res)
          /\ \A i \in 1..Len(resolutions) :
                DictGet(pixels_dict, Label(resolutions[i]))
                   = PixelCount(area_m2, resolutions[i])
    /\ (dr_pc = "raised" /\ ~PixelResAccepted(pixel_res) /\ dr_error = "ValueError")
          => dr_svc = 0

\* The resolutions 1, 10, 30, 60 and 100 m.
MonotonicityResolutions == <<10, 100, 300, 600, 1000>>

\* C23: for every area the service returns, the counts reported for the
\* resolutions 1, 10, 30, 60 and 100 m are strictly decreasing.
C23_CountsStrictlyDecreasing ==
    (dr_pc = "returned" /\ resolutions = MonotonicityResolutions) =>
        \A i, j \in 1..Len(resolutions) :
            i < j => DictGet(pixels_dict, Label(resolutions[i]))
                       > DictGet(pixels_dict, Label(resolutions[j]))

\* C30: n_pixels has one entry for each requested resolution, and the table,
\* when requested, is built with one row for each without an error.
C30_OneEntryPerResolution ==
    /\ dr_pc = "returned" =>
          /\ Len(pixels_dict) = Len(resolutions)
          /\ show_pixels_table => Len(dr_df[1]) = Len(resolutions)
    /\ (dr_pc = "raised" /\ PixelResAccepted(pixel_res))
          => dr_error # "ValueError"

---------------------------------------------------------------------------
\* list_sat_images (catalog.py 15-117)

MaxListed == 2

\* A collection id is the sequence of its characters.
CollectionIds ==
    { <<"L", "A", "N", "D", "S", "A", "T", "/", "L", "C", "0", "8", "/", "C", "0", "2", "/", "T", "1", "_", "L", "2">>,
      <<"C", "O", "P", "E", "R", "N", "I", "C", "U", "S", "/", "S", "2", "_", "S", "R">>,
      <<"s", "e", "n", "t", "i", "n", "e", "l", "-", "2">>,
      <<"l", "a", "n", "d", "s", "a", "t", "_", "s", "2">>,
      <<"C", "O", "P", "E", "R", "N", "I", "C", "U", "S", "/", "S", "1", "_", "G", "R", "D">>,
      <<"M", "O", "D", "I", "S", "/", "0", "0", "6", "/", "M", "O", "D", "1", "3", "Q", "1">> }

\* str.upper() on the letters of the ids.
ToUpper ==
    ("a" :> "A") @@
    ("b" :> "B") @@
    ("c" :> "C") @@
    ("d" :> "D") @@
    ("e" :> "E") @@
    ("f" :> "F") @@
    ("g" :> "G") @@
    ("h" :> "H") @@
    ("i" :> "I") @@
    ("j" :> "J") @@
    ("k" :> "K") @@
    ("l" :> "L") @@
    ("m" :> "M") @@
    ("n" :> "N") @@
    ("o" :> "O") @@
    ("p" :> "P") @@
    ("q" :> "Q") @@
    ("r" :> "R") @@
    ("s" :> "S") @@
    ("t" :> "T") @@
    ("u" :> "U") @@
    ("v" :> "V") @@
    ("w" :> "W") @@
    ("x" :> "X") @@
    ("y" :> "Y") @@
    ("z" :> "Z")

Upper(text) ==
    [i \in 1..Len(text) |->
        IF text[i] \in DOMAIN ToUpper THEN ToUpper[text[i]] ELSE text[i]]

\* pattern in text
Contains(text, pattern) ==
    \E i \in 0..(Len(text) - Len(pattern)) :
        SubSeq(text, i + 1, i + Len(pattern)) = pattern

\* Lines 35-49.
SATELLITE_METADATA ==
    [LANDSAT |-> [satellite |-> "SPACECRAFT_ID", cloud |-> "CLOUD_COVER",
                  elevation |-> "SUN_ELEVATION", azimuth |-> "SUN_AZIMUTH",
                  zenith_to_elevation |-> FALSE],
     SENTINEL |-> [satellite |-> "SPACECRAFT_NAME",
                   cloud |-> "CLOUDY_PIXEL_PERCENTAGE",
                   elevation |-> "MEAN_SOLAR_ZENITH_ANGLE",
                   azimuth |-> "MEAN_SOLAR_AZIMUTH_ANGLE",
                   zenith_to_elevation |-> TRUE]]

\* The texts looked for in a collection id.
KeyLandsat == <<"L", "A", "N", "D", "S", "A", "T">>
KeyS2 == <<"S", "2">>
KeySentinel == <<"S", "E", "N", "T", "I", "N", "E", "L">>

FamilyMutant(id) ==
    IF Contains(Upper(id), KeyS2)
       \/ Contains(Upper(id), KeySentinel)
    THEN "SENTINEL"
    ELSE IF Contains(Upper(id), KeyLandsat)
    THEN "LANDSAT"
    ELSE "unsupported"

\* Lines 52-57: the family of a collection id.
Family(id) ==
    IF Contains(Upper(id), KeyLandsat)
    THEN "LANDSAT"
    ELSE IF Contains(Upper(id), KeyS2)
            \/ Contains(Upper(id), KeySentinel)
    THEN "SENTINEL"
    ELSE "unsupported"

\* The properties of an image, <<name, value>> pairs; angles and percentages
\* in tenths, the time in milliseconds.
LandsatProps ==
    { <<"SPACECRAFT_ID", "LANDSAT_8">>, <<"CLOUD_COVER", 125>>,
      <<"SUN_ELEVATION", 553>>, <<"SUN_AZIMUTH", 1400>>,
      <<"system:time_start", 1000>> }
SentinelProps ==
    { <<"SPACECRAFT_NAME", "Sentinel-2A">>,
      <<"CLOUDY_PIXEL_PERCENTAGE", 35>>,
      <<"MEAN_SOLAR_ZENITH_ANGLE", 305>>,
      <<"MEAN_SOLAR_AZIMUTH_ANGLE", 1500>>, <<"system:time_start", 2000>> }
ImageProps ==
    { LandsatProps, SentinelProps, LandsatProps \cup SentinelProps, {} }

\* props.get(name, default)
Get(props, name, default) ==
    IF \E p \in props : p[1] = name
    THEN (CHOOSE p \in props : p[1] = name)[2]
    ELSE default

\* round(v) if v is not None else None, v in tenths
RoundOrNone(v) == IF v = None THEN None ELSE RoundHalfEven(v, 10)

\* What the service answers for the area of roi and for the area of the
\* intersection of an image with it (<<>>: the request failed), and what
\* get_clear_sky_percentage does (<<>>: it raised).
RoiAreas == {0, 3000}
InterOutcomes == {<<>>, <<0>>, <<1000>>}
ClearOutcomes == {<<>>, <<None>>, <<457>>}

ProportionMutant(inter, area) ==
    IF inter = <<>> THEN None
    ELSE IF inter[1] > 0 /\ area # 0
    THEN RoundHalfEven(inter[1] * 1000, area)
    ELSE 0

\* Lines 77-83: the percentage of roi the image covers, in tenths; the
\* handler of every failure, a division by a zero area included, gives 0.
Proportion(inter, area) ==
    IF inter = <<>> THEN 0
    ELSE IF inter[1] > 0
    THEN IF area = 0 THEN 0 ELSE RoundHalfEven(inter[1] * 1000, area)
    ELSE 0

\* Lines 86-92: the solar elevation after the conversion of a zenith.
SolarElevation(m, props) ==
    LET solar_elevation == Get(props, m.elevation, None)
    IN  IF m.zenith_to_elevation /\ solar_elevation # None
        THEN 900 - solar_elevation
        ELSE solar_elevation

\* Lines 95-101: clear_pct.
ClearPct(compute, clear) ==
    IF ~compute THEN None
    ELSE IF clear = <<>> THEN None
    ELSE clear[1]

\* Lines 104-113: the row of an image.
Metadata(img_id, m, props, inter, area, compute, clear) ==
    [id |-> img_id,
     date |-> Get(props, "system:time_start", None),
     satellite |-> Get(props, m.satellite, "unknown"),
     img_cloud_cover |-> RoundOrNone(Get(props, m.cloud, None)),
     solar_elevation |-> RoundOrNone(SolarElevation(m, props)),
     solar_azimuth |-> RoundOrNone(Get(props, m.azimuth, None)),
     proportion_roi |-> Proportion(inter, area),
     clear_sky |-> ClearPct(compute, clear)]

\* ids[:max_imgs] for max_imgs >= 0
Slice(seq, n) == SubSeq(seq, 1, IF n < Len(seq) THEN n ELSE Len(seq))

LSRaise(e) ==
    /\ ls_pc' = "raised"
    /\ ls_error' = e

LSInit ==
    /\ IdxIdle /\ MBIdle /\ TCIdle /\ CHIdle /\ ExtIdleMain /\ DRIdle
    /\ SDIdle
    /\ ls_pc = "check"
    /\ collection_id \in CollectionIds
    /\ ls_roi \in {"None", "Geometry"}
    /\ max_imgs \in 0..MaxListed
    /\ compute_clear_sky \in BOOLEAN
    /\ ls_svc = 0
    /\ roi_area = None
    /\ ls_matching = <<>>
    /\ ids = <<>>
    /\ meta = NoMeta
    /\ metadata_list = <<>>
    /\ ls_log = <<>>
    /\ ls_msgs = <<>>
    /\ ls_error = NoExc

\* Lines 32-57: roi is required, and the family of the collection.
LSCheck ==
    /\ ls_pc = "check"
    /\ IF ls_roi = "None"
       THEN LSRaise("ValueError: roi") /\ UNCHANGED meta
       ELSE IF Family(collection_id) = "unsupported"
       THEN LSRaise("ValueError: collection") /\ UNCHANGED meta
       ELSE /\ meta' = SATELLITE_METADATA[Family(collection_id)]
            /\ ls_pc' = "area"
            /\ UNCHANGED ls_error
    /\ UNCHANGED <<collection_id, ls_roi, max_imgs, compute_clear_sky, ls_svc,
                   roi_area, ls_matching, ids, metadata_list, ls_log, ls_msgs>>
    /\ LSFrame

\* Lines 60-66: the collection is built, the area of roi is requested.
LSArea ==
    /\ ls_pc = "area"
    /\ ls_svc' = ls_svc + 1
    /\ \/ \E a \in RoiAreas :
            /\ roi_area' = a
            /\ ls_pc' = "ids"
            /\ UNCHANGED ls_error
       \/ /\ LSRaise("EEException")
          /\ UNCHANGED roi_area
    /\ UNCHANGED <<collection_id, ls_roi, max_imgs, compute_clear_sky,
                   ls_matching, ids, meta, metadata_list, ls_log, ls_msgs>>
    /\ LSFrame

\* Lines 67-70: the ids of the filtered collection, at most max_imgs.
LSIds ==
    /\ ls_pc = "ids"
    /\ ls_svc' = ls_svc + 1
    /\ \/ \E found \in BoundedSeq(ImageProps, MaxListed) :
            /\ ls_matching' = found
            /\ ids' = Slice([i \in 1..Len(found) |-> i], max_imgs)
            /\ ls_pc' = "loop"
            /\ UNCHANGED ls_error
       \/ /\ LSRaise("EEException")
          /\ UNCHANGED <<ls_matching, ids>>
    /\ UNCHANGED <<collection_id, ls_roi, max_imgs, compute_clear_sky,
                   roi_area, meta, metadata_list, ls_log, ls_msgs>>
    /\ LSFrame

\* Lines 72-115: one pass of the loop.
LSImage ==
    /\ ls_pc = "loop"
    /\ Len(metadata_list) < Len(ids)
    /\ LET img_id == ids[Len(metadata_list) + 1]
           props == ls_matching[img_id]
       IN  \/ \* line 74: img.getInfo() fails, outside every handler
              /\ LSRaise("EEException")
              /\ ls_svc' = ls_svc + 1
              /\ ls_log' = Append(ls_log, [props |-> FALSE, inter |-> <<>>,
                                           clear |-> <<>>])
              /\ UNCHANGED <<metadata_list, ls_msgs>>
           \/ \E inter \in InterOutcomes, clear \in ClearOutcomes :
                /\ compute_clear_sky \/ clear = <<None>>
                /\ ls_svc' = ls_svc + 2
                /\ ls_log' = Append(ls_log, [props |-> TRUE, inter |-> inter,
                                             clear |-> clear])
                /\ metadata_list' =
                      Append(metadata_list,
                             Metadata(img_id, meta, props, inter, roi_area,
                                      compute_clear_sky, clear))
                /\ ls_msgs' = IF compute_clear_sky /\ clear = <<>>
                              THEN Append(ls_msgs, <<"clear_sky", img_id>>)
                              ELSE ls_msgs
                /\ UNCHANGED <<ls_pc, ls_error>>
    /\ UNCHANGED <<collection_id, ls_roi, max_imgs, compute_clear_sky,
                   roi_area, ls_matching, ids, meta>>
    /\ LSFrame

\* Line 117.
LSReturn ==
    /\ ls_pc = "loop"
    /\ Len(metadata_list) = Len(ids)
    /\ ls_pc' = "returned"
    /\ UNCHANGED <<collection_id, ls_roi, max_imgs, compute_clear_sky, ls_svc,
                   roi_area, ls_matching, ids, meta, metadata_list, ls_log,
                   ls_msgs, ls_error>>
    /\ LSFrame

LSNext == LSCheck \/ LSArea \/ LSIds \/ LSImage \/ LSReturn

SpecListSatImages == LSInit /\ [][LSNext]_vars

\* Whether the upper-cased collection id holds a text.
IdHolds(key) == Contains(Upper(collection_id), key)

C25_IntersectionFailureGivesZero ==
    /\ \A k \in 1..Len(ls_log) :
          ls_log[k].props =>
             /\ k <= Len(metadata_list)
             /\ (ls_log[k].inter = <<>> \/ roi_area = 0)
                   => metadata_list[k].proportion_roi = 0
             /\ metadata_list[k]
                   = Metadata(ids[k], meta, ls_matching[ids[k]],
                              ls_log[k].inter, roi_area, compute_clear_sky,
                              ls_log[k].clear)
    /\ (ls_pc = "raised" /\ ls_log # <<>>) => ~ls_log[Len(ls_log)].props

\* The intersection of the first of two images failed: its row has a
\* proportion of 0 and the second image has its 33.3 %.
C25_Witness ==
    /\ ls_pc = "returned"
    /\ Len(metadata_list) = 2
    /\ ls_log[1].inter = <<>>
    /\ metadata_list[1].proportion_roi = 0
    /\ ls_log[2].inter = <<1000>>
    /\ metadata_list[2].proportion_roi = 333

\* C29: the listing returns one row for each of the first max_imgs matching
\* images, in the order of the service, and no failure of one image, the
\* request for its properties included, ends the call.
C29_OneRowPerImage ==
    /\ ls_pc = "returned" =>
          /\ Len(metadata_list)
                = (IF max_imgs < Len(ls_matching) THEN max_imgs
                   ELSE Len(ls_matching))
          /\ \A k \in 1..Len(metadata_list) : metadata_list[k].id = k
    /\ ls_pc = "raised" => ls_log = <<>>

---------------------------------------------------------------------------
\* get_sidra_cultura (sidra_tools.py 10-107)

\* Lines 48-49.
SidraVars == <<"8331", "216", "214", "112">>
vars_names == <<"A.plantada", "A.colhida", "Q.colhida", "Rendimento">>

\* A cell of a sheet is a number, a text (a footer, "...") or empty; an
\* empty cell is read as NaN, and NaT is the date of no year.
TextCell == -3
NaN == -2
NaT == <<>>

\* The last row of a sheet of the service: its source note.
Footer == <<TextCell, NaN, NaN>>

\* What a download gives: no sheet (the request or the parsing failed), or
\* the rows of df_raw, each <<year, crop, value, ...>>.
NoSheet == [ok |-> FALSE, rows |-> <<>>]
Sheet(rows) == [ok |-> TRUE, rows |-> rows]
Downloads ==
    { NoSheet,
      Sheet(<<>>),
      Sheet(<< <<1987, TextCell>>, <<TextCell, NaN>> >>),
      Sheet(<< Footer >>),
      Sheet(<< <<1987, TextCell, 5>>, Footer >>),
      Sheet(<< <<1987, TextCell, 5>>, <<2003, TextCell, TextCell>>, Footer >>),
      Sheet(<< <<2003, TextCell, 7>>, <<1987, TextCell, 5>>, Footer >>) }

CropCodes == {"", "40139", "40101"}

\* df_raw.empty or df_raw.shape[1] < 3
SheetInvalid(rows) == rows = <<>> \/ Len(rows[1]) < 3

\* df_raw.iloc[:, c]
Iloc(rows, c) == [i \in 1..Len(rows) |-> rows[i][c]]

AlignedMutant(series, n) ==
    [i \in 1..n |-> IF i < Len(series) THEN series[i + 1] ELSE NaN]

\* data[name] = series on a frame of n rows: both carry the default index
\* 0, 1, ..., so that the series is aligned by position, cut when it is
\* longer and filled with NaN when it is shorter.
Aligned(series, n) ==
    [i \in 1..n |-> IF i <= Len(series) THEN series[i] ELSE NaN]

\* Lines 71-74: the columns of data after download ii.
AddColumns(frame, ii, rows) ==
    IF ii = 1
    THEN <<<<"Ano", Iloc(rows, 1)>>, <<vars_names[1], Iloc(rows, 3)>>>>
    ELSE Append(frame, <<vars_names[ii], Aligned(Iloc(rows, 3), Len(frame[1][2]))>>)

\* pd.to_numeric(errors='coerce') on a cell
ToNumeric(cell) == IF cell \in {TextCell, NaN} THEN NaN ELSE cell

\* pd.to_datetime(format="%Y") on a number of years
YearStart(y) == IF y = NaN THEN NaT ELSE <<y, 1, 1>>

\* Lines 77-82: the rows of the frame without its last row, the year as
\* index and the four values.
Finished(frame) ==
    [i \in 1..(Len(frame[1][2]) - 1) |->
        [Ano |-> YearStart(ToNumeric(frame[1][2][i])),
         values |-> [v \in 1..Len(SidraVars) |-> ToNumeric(frame[v + 1][2][i])]]]

\* Lines 85-89: the warnings.
SidraWarnings(rows, crop) ==
    (IF \A i \in 1..Len(rows) : rows[i].values[1] = NaN
     THEN {"area_plantada"} ELSE {})
    \cup
    (IF /\ crop \in {"40139", "40140"}
        /\ \E i \in 1..Len(rows) :
              rows[i].Ano # NaT /\ rows[i].Ano[1] < 2002
     THEN {"cafe"} ELSE {})

SDRaise(e) ==
    /\ sd_pc' = "raised"
    /\ sd_error' = e

SDInit ==
    /\ IdxIdle /\ MBIdle /\ TCIdle /\ CHIdle /\ ExtIdleMain /\ DRIdle
    /\ LSIdle
    /\ sd_pc = "check"
    /\ cod_mun \in {"", "3169406"}
    /\ cod_cultura \in CropCodes
    /\ sd_debug \in BOOLEAN
    /\ sd_requests = <<>>
    /\ sd_raw = <<>>
    /\ data = <<>>
    /\ sd_out = <<>>
    /\ sd_warnings = {}
    /\ sd_msgs = <<>>
    /\ sd_error = NoExc

\* Lines 44-51: both codes are required.
SDCheck ==
    /\ sd_pc = "check"
    /\ IF cod_mun = "" \/ cod_cultura = ""
       THEN SDRaise("ValueError")
       ELSE sd_pc' = "download" /\ UNCHANGED sd_error
    /\ UNCHANGED <<cod_mun, cod_cultura, sd_debug, sd_requests, sd_raw, data,
                   sd_out, sd_warnings, sd_msgs>>
    /\ SDFrame

\* Lines 53-74: one pass of the loop over the four variables.
SDDownload ==
    /\ sd_pc = "download"
    /\ Len(sd_requests) < Len(SidraVars)
    /\ LET ii == Len(sd_requests) + 1
       IN  /\ sd_requests' = Append(sd_requests, SidraVars[ii])
           /\ sd_msgs' = IF sd_debug
                         THEN Append(sd_msgs, <<"download", vars_names[ii]>>)
                         ELSE sd_msgs
           /\ \E d \in Downloads :
                 IF ~d.ok
                 THEN SDRaise("RuntimeError") /\ UNCHANGED <<sd_raw, data>>
                 ELSE /\ sd_raw' = Append(sd_raw, d.rows)
                      /\ IF SheetInvalid(d.rows)
                         THEN SDRaise("ValueError") /\ UNCHANGED data
                         ELSE /\ data' = AddColumns(data, ii, d.rows)
                              /\ sd_pc' = IF ii = Len(SidraVars) THEN "finish"
                                          ELSE "download"
                              /\ UNCHANGED sd_error
    /\ UNCHANGED <<cod_mun, cod_cultura, sd_debug, sd_out, sd_warnings>>
    /\ SDFrame

\* Lines 76-107: the footer is dropped, the cells are converted, the
\* warnings are issued and the frame is returned.
SDFinish ==
    /\ sd_pc = "finish"
    /\ sd_out' = Finished(data)
    /\ sd_warnings' = SidraWarnings(Finished(data), cod_cultura)
    /\ sd_msgs' = IF sd_debug THEN Append(sd_msgs, <<"done", "">>) ELSE sd_msgs
    /\ sd_pc' = "returned"
    /\ UNCHANGED <<cod_mun, cod_cultura, sd_debug, sd_requests, sd_raw, data,
                   sd_error>>
    /\ SDFrame

SDNext == SDCheck \/ SDDownload \/ SDFinish

SpecSidra == SDInit /\ [][SDNext]_vars

\* C26: the four variable codes are requested once each in their fixed
\* order; row i of the returned table has the year of row i of the first
\* download and, for each variable, the value of row i of that variable's
\* download, whatever the row counts and the row orders of the downloads
\* are; the call raises only for missing codes or for a download that
\* failed or is not a sheet of data, and then returns no table.
C26_MergedByRowPosition ==
    /\ sd_requests = SubSeq(SidraVars, 1, Len(sd_requests))
    /\ sd_pc = "returned" =>
          /\ sd_requests = SidraVars
          /\ Len(sd_out) = Len(sd_raw[1]) - 1
          /\ \A i \in 1..Len(sd_out) :
                /\ sd_out[i].Ano = YearStart(ToNumeric(sd_raw[1][i][1]))
                /\ \A v \in 1..Len(SidraVars) :
                      sd_out[i].values[v]
                         = IF i <= Len(sd_raw[v])
                           THEN ToNumeric(sd_raw[v][i][3])
                           ELSE NaN
    /\ sd_pc = "raised" =>
          /\ sd_out = <<>>
          /\ \/ cod_mun = "" \/ cod_cultura = ""
             \/ Len(sd_raw) < Len(sd_requests)
             \/ SheetInvalid(sd_raw[Len(sd_raw)])
    /\ (/\ Len(sd_raw) = Len(SidraVars)
        /\ \A v \in 1..Len(sd_raw) : ~SheetInvalid(sd_raw[v]))
          => sd_pc \in {"finish", "returned"}

\* The second download lists the years in the other order and the third
\* holds one year only: the table is returned with two rows, the second
\* row pairing the year 2003 of the first download with the value of 1987
\* of the second and with no value of the third.
C26_Witness ==
    /\ sd_pc = "returned"
    /\ Len(sd_out) = 2
    /\ Len(sd_raw[2]) = 3
    /\ sd_raw[1][2][1] = 2003
    /\ sd_raw[2][2][1] = 1987
    /\ Len(sd_raw[3]) = 2
    /\ sd_out[2].Ano = <<2003, 1, 1>>
    /\ sd_out[2].values[2] = 5
    /\ sd_out[2].values[3] = NaN

=============================================================================
